---------------------------- MODULE Spec2Model ----------------------------
(***************************************************************************)
(* Model of the training orchestration engine of TextBox,                  *)
(* textbox/trainer/trainer.py: the Trainer's fit loop, the eval cadence    *)
(* (_set_eval_mode, _valid), early stopping (_early_stopping), the         *)
(* checkpoint store (save_checkpoint, resume_checkpoint) and best_result.  *)
(*                                                                         *)
(* Python values are modelled as follows.                                  *)
(*   - An Optional value is a sequence: None is << >>, a value v is <<v>>. *)
(*   - A validation score is an integer number of 0.05 units (0.5 is 10).  *)
(*     -math.inf is NegInf, below every score.                             *)
(*   - The summary of a validation pass (EpochTracker.as_dict) is the      *)
(*     record [epoch_idx, score]: score stands for the metrics_results and *)
(*     loss of the pass, of which EpochTracker.score is a function.        *)
(*   - A path under checkpoint_dir is the record [tag, time, ext]: the     *)
(*     run's filename, then '_epoch-<e>' when tag is <<e>>, then the local *)
(*     time when time is TRUE, then ext.                                   *)
(*   - train_loss_list holds, for each loss appended, the epoch_idx of the *)
(*     train tracker it came from.                                         *)
(* An action is one handler or one loop iteration with every call it       *)
(* makes; an exception ends the run in pc = "raised" with its name in      *)
(* error.                                                                  *)
(***************************************************************************)
EXTENDS Integers, Sequences, FiniteSets, TLC

VARIABLES
    config,             \* self.config: eval_epoch, eval_step, stopping_step, epochs
    train_data,         \* number of batches the train dataloader yields per epoch
    valid_data,         \* TRUE iff fit is given a (truthy) validation dataloader
    self,               \* the Trainer's fields
    files,              \* regular files under checkpoint_dir: path -> checkpoint
    links,              \* symbolic links under checkpoint_dir: path -> target path
    save_log,           \* the torch.save calls made so far, in order
    pc,                 \* position of the caller / of fit
    it,                 \* next value of the iterator of range(start_epoch, epochs)
    batch,              \* number of batches of the current epoch already drawn
    optimizer_steps,    \* number of optimizer.step() calls made
    valid_ret,          \* value returned by the latest _valid call, None before
    fit_result,         \* value returned by fit, None before
    error,              \* the exception that ended the run, "" if none
    call,               \* the latest call the caller made besides fit, observed
    tracker,            \* an EpochTracker the caller holds
    dashboard,          \* the scalars the tracker's dashboard was given, in order
    ranks               \* multi-process mode: rank -> that process's fit, << >> otherwise

vars == <<config, train_data, valid_data, self, files, links, save_log, pc, it,
          batch, optimizer_steps, valid_ret, fit_result, error, call, tracker,
          dashboard, ranks>>

(* What fit and its callees leave alone. *)
aux == <<call, tracker, dashboard, ranks>>

---------------------------------------------------------------------------
(* Bounds of the model. *)

MaxEpochs == 3
MaxBatches == 2
MaxSteps == 6
MaxInterval == 2
MaxPatience == 2
MaxPriorCount == 1
MaxAppends == 3
MaxLoss == 2
MaxMetrics == 1
MaxReads == 3
MaxLen == 4
MaxRanks == 2
MaxShard == 1

(* The best score of the earlier run's checkpoints: 0.45. *)
PriorScores == {9}

(* The parameters and the optimizer state are version numbers: 0 at        *)
(* construction, one more after each optimizer step. The earlier run's     *)
(* checkpoints hold version 100.                                           *)
PriorParams == {100}

(* Validation scores in units of 0.05: 0.4, 0.45, 0.5 and 1.0. *)
Scores == {8, 9, 10, 20}

(* best_valid_score = -math.inf *)
NegInf == -1

None == << >>
Some(v) == <<v>>

(* Python truthiness of an Optional[int], and `x or 0`. *)
Bool(o) == o # None /\ o[1] # 0
OrZero(o) == IF Bool(o) THEN o[1] ELSE 0

OptInterval == {None} \cup {Some(i) : i \in -1..MaxInterval}
OptPatience == {None} \cup {Some(i) : i \in 0..MaxPatience}

Configs ==
    [eval_epoch : OptInterval, eval_step : OptInterval,
     stopping_step : OptPatience, epochs : 0..MaxEpochs]

---------------------------------------------------------------------------
(* Mutant of _set_eval_mode: when both inputs are > 0 the step cadence wins. *)
Mutant_set_eval_mode_StepWins(cfg) ==
    LET eval_epoch0 == OrZero(cfg.eval_epoch)
        eval_step0 == OrZero(cfg.eval_step)
        both == eval_epoch0 > 0 /\ eval_step0 > 0
        neither == ~both /\ eval_epoch0 <= 0 /\ eval_step0 <= 0
        eval_epoch == IF both THEN 0 ELSE IF neither THEN 1 ELSE eval_epoch0
    IN  IF eval_epoch > 0
        THEN [interval |-> eval_epoch, mode |-> "epoch"]
        ELSE [interval |-> eval_step0, mode |-> "step"]

(* Mutant of _set_eval_mode: when neither input is > 0 eval_epoch is not   *)
(* set to 1.                                                               *)
Mutant_set_eval_mode_NoDefault(cfg) ==
    LET eval_epoch0 == OrZero(cfg.eval_epoch)
        eval_step0 == OrZero(cfg.eval_step)
        both == eval_epoch0 > 0 /\ eval_step0 > 0
        eval_step == IF both THEN 0 ELSE eval_step0
    IN  IF eval_epoch0 > 0
        THEN [interval |-> eval_epoch0, mode |-> "epoch"]
        ELSE [interval |-> eval_step, mode |-> "step"]

(* Trainer._set_eval_mode *)
_set_eval_mode(cfg) ==
    LET eval_epoch0 == OrZero(cfg.eval_epoch)
        eval_step0 == OrZero(cfg.eval_step)
        both == eval_epoch0 > 0 /\ eval_step0 > 0
        neither == ~both /\ eval_epoch0 <= 0 /\ eval_step0 <= 0
        eval_step == IF both THEN 0 ELSE eval_step0
        eval_epoch == IF neither THEN 1 ELSE eval_epoch0
    IN  IF eval_epoch > 0
        THEN [interval |-> eval_epoch, mode |-> "epoch"]
        ELSE [interval |-> eval_step, mode |-> "step"]

(* Trainer.__init__ *)
Trainer(cfg) ==
    [stopping_step |-> cfg.stopping_step,
     stopped |-> FALSE,
     stopping_count |-> 0,
     start_epoch |-> 0,
     epochs |-> cfg.epochs,
     epoch_idx |-> -1,
     best_epoch |-> -1,
     best_valid_score |-> NegInf,
     eval_interval |-> _set_eval_mode(cfg).interval,
     eval_mode |-> _set_eval_mode(cfg).mode,
     _eval_count |-> 0,
     train_loss_list |-> << >>,
     result_list |-> << >>,
     model |-> 0,
     optimizer |-> 0]

(* EpochTracker.as_dict of the tracker _valid_epoch returns *)
_valid_epoch(epoch_idx, score) ==
    [epoch_idx |-> epoch_idx, score |-> score]

(* Mutant of _early_stopping: the boundary is >= instead of >. *)
Mutant_early_stopping_Geq(t, score, epoch_idx) ==
    IF score > t.best_valid_score
    THEN [self |-> [t EXCEPT !.best_valid_score = score,
                             !.stopping_count = 0,
                             !.best_epoch = epoch_idx],
          ret |-> FALSE]
    ELSE [self |-> [t EXCEPT !.stopping_count = t.stopping_count + 1],
          ret |-> t.stopping_count + 1 >= t.stopping_step[1]]

(* Mutant of _early_stopping: a lower score counts as the improvement. *)
Mutant_early_stopping_Less(t, score, epoch_idx) ==
    IF score < t.best_valid_score \/ t.best_valid_score = NegInf
    THEN [self |-> [t EXCEPT !.best_valid_score = score,
                             !.stopping_count = 0,
                             !.best_epoch = epoch_idx],
          ret |-> FALSE]
    ELSE [self |-> [t EXCEPT !.stopping_count = t.stopping_count + 1],
          ret |-> t.stopping_count + 1 > t.stopping_step[1]]

(* Trainer._early_stopping: the Trainer after the call, and the stop flag *)
_early_stopping(t, score, epoch_idx) ==
    IF score > t.best_valid_score
    THEN [self |-> [t EXCEPT !.best_valid_score = score,
                             !.stopping_count = 0,
                             !.best_epoch = epoch_idx],
          ret |-> FALSE]
    ELSE [self |-> [t EXCEPT !.stopping_count = t.stopping_count + 1],
          ret |-> t.stopping_count + 1 > t.stopping_step[1]]

---------------------------------------------------------------------------
(* The checkpoint directory: d = [files, links, log].                      *)

Path(tag, ext) == [tag |-> tag, time |-> FALSE, ext |-> ext]

(* os.path.exists: a file, or a link whose target is a file *)
Exists(d, p) ==
    \/ p \in DOMAIN d.files
    \/ p \in DOMAIN d.links /\ d.links[p] \in DOMAIN d.files

(* os.remove *)
Remove(d, p) ==
    [d EXCEPT !.files = [q \in (DOMAIN d.files) \ {p} |-> d.files[q]],
              !.links = [q \in (DOMAIN d.links) \ {p} |-> d.links[q]]]

(* torch.save(checkpoint, path) *)
TorchSave(d, p, checkpoint) ==
    [d EXCEPT !.files = [q \in (DOMAIN d.files) \cup {p} |->
                            IF q = p THEN checkpoint ELSE d.files[q]],
              !.log = Append(d.log, [path |-> p, checkpoint |-> checkpoint])]

(* os.symlink(src, dst): FileExistsError when dst is already there *)
Symlink(d, src, dst) ==
    IF dst \in (DOMAIN d.files) \cup (DOMAIN d.links)
    THEN [d EXCEPT !.raised = "FileExistsError"]
    ELSE [d EXCEPT !.links = [q \in (DOMAIN d.links) \cup {dst} |->
                                 IF q = dst THEN src ELSE d.links[q]]]

(* The checkpoint record save_checkpoint builds (config is not modelled).  *)
Checkpoint(t) ==
    [state_dict |-> t.model,
     optimizer |-> t.optimizer,
     stopping_count |-> t.stopping_count,
     best_valid_score |-> t.best_valid_score,
     epoch |-> t.epoch_idx,
     summary |-> t.result_list[Len(t.result_list)]]

(* Mutant of save_checkpoint: the best pointer is moved to every           *)
(* checkpoint written.                                                     *)
Mutant_save_checkpoint_AlwaysLink(t, d, tag, overwrite) ==
    IF Len(t.result_list) = 0 THEN d
    ELSE
    LET tag1 == IF tag = None THEN Some(t.epoch_idx) ELSE tag
        path0 == Path(tag1, "")
        d1 == IF Exists(d, path0) /\ overwrite THEN Remove(d, path0) ELSE d
        path1 == IF Exists(d, path0) /\ ~overwrite
                 THEN [path0 EXCEPT !.time = TRUE] ELSE path0
        path_to_save == [path1 EXCEPT !.ext = ".pth"]
        d2 == TorchSave(d1, path_to_save, Checkpoint(t))
        path_to_best == Path(None, ".pth")
        d3 == IF Exists(d2, path_to_best) THEN Remove(d2, path_to_best) ELSE d2
    IN  Symlink(d3, path_to_save, path_to_best)

(* Mutant of save_checkpoint: the test for an empty result_list is gone,   *)
(* and `self.result_list[-1]` raises.                                      *)
Mutant_save_checkpoint_NoGuard(t, d, tag, overwrite) ==
    IF Len(t.result_list) = 0 THEN [d EXCEPT !.raised = "IndexError"]
    ELSE
    LET tag1 == IF tag = None THEN Some(t.epoch_idx) ELSE tag
        path0 == Path(tag1, "")
        d1 == IF Exists(d, path0) /\ overwrite THEN Remove(d, path0) ELSE d
        path1 == IF Exists(d, path0) /\ ~overwrite
                 THEN [path0 EXCEPT !.time = TRUE] ELSE path0
        path_to_save == [path1 EXCEPT !.ext = ".pth"]
        d2 == TorchSave(d1, path_to_save, Checkpoint(t))
        path_to_best == Path(None, ".pth")
        d3 == IF Exists(d2, path_to_best) THEN Remove(d2, path_to_best) ELSE d2
    IN  IF t.best_epoch = t.epoch_idx
        THEN Symlink(d3, path_to_save, path_to_best)
        ELSE d2

(* Trainer.save_checkpoint(tag, overwrite): the directory after the call *)
save_checkpoint(t, d, tag, overwrite) ==
    IF Len(t.result_list) = 0 THEN d
    ELSE
    LET tag1 == IF tag = None THEN Some(t.epoch_idx) ELSE tag
        path0 == Path(tag1, "")
        d1 == IF Exists(d, path0) /\ overwrite THEN Remove(d, path0) ELSE d
        path1 == IF Exists(d, path0) /\ ~overwrite
                 THEN [path0 EXCEPT !.time = TRUE] ELSE path0
        path_to_save == [path1 EXCEPT !.ext = ".pth"]
        d2 == TorchSave(d1, path_to_save, Checkpoint(t))
        path_to_best == Path(None, ".pth")
        d3 == IF Exists(d2, path_to_best) THEN Remove(d2, path_to_best) ELSE d2
    IN  IF t.best_epoch = t.epoch_idx
        THEN Symlink(d3, path_to_save, path_to_best)
        ELSE d2

(* Mutant of _valid: early stopping is checked whenever stopping_step is   *)
(* set, zero included.                                                     *)
Mutant_valid_ZeroPatience(t, d, epoch_idx, position, score) ==
    IF position # t.eval_mode \/ t.eval_interval <= 0
    THEN [self |-> t, disk |-> d, ret |-> FALSE, ran |-> FALSE]
    ELSE
    LET t1 == [t EXCEPT !._eval_count = t._eval_count + 1]
    IN  IF t1._eval_count % t1.eval_interval # 0
        THEN [self |-> t1, disk |-> d, ret |-> FALSE, ran |-> FALSE]
        ELSE
        LET t2 == [t1 EXCEPT !.result_list =
                        Append(t1.result_list, _valid_epoch(epoch_idx, score))]
            es == IF t2.stopping_step # None
                  THEN _early_stopping(t2, score, epoch_idx)
                  ELSE [self |-> t2, ret |-> FALSE]
        IN  [self |-> es.self,
             disk |-> save_checkpoint(es.self, d, None, TRUE),
             ret |-> es.ret,
             ran |-> TRUE]

(* Mutant of _valid: the interval is tested before the call is counted. *)
Mutant_valid_CountAfter(t, d, epoch_idx, position, score) ==
    IF position # t.eval_mode \/ t.eval_interval <= 0
    THEN [self |-> t, disk |-> d, ret |-> FALSE, ran |-> FALSE]
    ELSE
    LET t1 == [t EXCEPT !._eval_count = t._eval_count + 1]
    IN  IF t._eval_count % t1.eval_interval # 0
        THEN [self |-> t1, disk |-> d, ret |-> FALSE, ran |-> FALSE]
        ELSE
        LET t2 == [t1 EXCEPT !.result_list =
                        Append(t1.result_list, _valid_epoch(epoch_idx, score))]
            es == IF Bool(t2.stopping_step)
                  THEN _early_stopping(t2, score, epoch_idx)
                  ELSE [self |-> t2, ret |-> FALSE]
        IN  [self |-> es.self,
             disk |-> save_checkpoint(es.self, d, None, TRUE),
             ret |-> es.ret,
             ran |-> TRUE]

(* Mutant of _valid: the checkpoint is saved before the early-stopping    *)
(* check.                                                                  *)
Mutant_valid_SaveFirst(t, d, epoch_idx, position, score) ==
    IF position # t.eval_mode \/ t.eval_interval <= 0
    THEN [self |-> t, disk |-> d, ret |-> FALSE, ran |-> FALSE]
    ELSE
    LET t1 == [t EXCEPT !._eval_count = t._eval_count + 1]
    IN  IF t1._eval_count % t1.eval_interval # 0
        THEN [self |-> t1, disk |-> d, ret |-> FALSE, ran |-> FALSE]
        ELSE
        LET t2 == [t1 EXCEPT !.result_list =
                        Append(t1.result_list, _valid_epoch(epoch_idx, score))]
            es == IF Bool(t2.stopping_step)
                  THEN _early_stopping(t2, score, epoch_idx)
                  ELSE [self |-> t2, ret |-> FALSE]
        IN  [self |-> es.self,
             disk |-> save_checkpoint(t2, d, None, TRUE),
             ret |-> es.ret,
             ran |-> TRUE]

(* Mutant of _valid: the counter starts again after a validation pass. *)
Mutant_valid_ResetCount(t, d, epoch_idx, position, score) ==
    IF position # t.eval_mode \/ t.eval_interval <= 0
    THEN [self |-> t, disk |-> d, ret |-> FALSE, ran |-> FALSE]
    ELSE
    LET t1 == [t EXCEPT !._eval_count = t._eval_count + 1]
    IN  IF t1._eval_count % t1.eval_interval # 0
        THEN [self |-> t1, disk |-> d, ret |-> FALSE, ran |-> FALSE]
        ELSE
        LET t2 == [t1 EXCEPT !.result_list =
                        Append(t1.result_list, _valid_epoch(epoch_idx, score)),
                             !._eval_count = 0]
            es == IF Bool(t2.stopping_step)
                  THEN _early_stopping(t2, score, epoch_idx)
                  ELSE [self |-> t2, ret |-> FALSE]
        IN  [self |-> es.self,
             disk |-> save_checkpoint(es.self, d, None, TRUE),
             ret |-> es.ret,
             ran |-> TRUE]

(* Mutant of _valid: the summary is put at the head of result_list. *)
Mutant_valid_Prepend(t, d, epoch_idx, position, score) ==
    IF position # t.eval_mode \/ t.eval_interval <= 0
    THEN [self |-> t, disk |-> d, ret |-> FALSE, ran |-> FALSE]
    ELSE
    LET t1 == [t EXCEPT !._eval_count = t._eval_count + 1]
    IN  IF t1._eval_count % t1.eval_interval # 0
        THEN [self |-> t1, disk |-> d, ret |-> FALSE, ran |-> FALSE]
        ELSE
        LET t2 == [t1 EXCEPT !.result_list =
                        <<_valid_epoch(epoch_idx, score)>> \o t1.result_list]
            es == IF Bool(t2.stopping_step)
                  THEN _early_stopping(t2, score, epoch_idx)
                  ELSE [self |-> t2, ret |-> FALSE]
        IN  [self |-> es.self,
             disk |-> save_checkpoint(es.self, d, None, TRUE),
             ret |-> es.ret,
             ran |-> TRUE]

(* Trainer._valid: the Trainer and the directory after the call, the value *)
(* returned, and whether a validation pass ran.                            *)
_valid(t, d, epoch_idx, position, score) ==
    IF position # t.eval_mode \/ t.eval_interval <= 0
    THEN [self |-> t, disk |-> d, ret |-> FALSE, ran |-> FALSE]
    ELSE
    LET t1 == [t EXCEPT !._eval_count = t._eval_count + 1]
    IN  IF t1._eval_count % t1.eval_interval # 0
        THEN [self |-> t1, disk |-> d, ret |-> FALSE, ran |-> FALSE]
        ELSE
        LET t2 == [t1 EXCEPT !.result_list =
                        Append(t1.result_list, _valid_epoch(epoch_idx, score))]
            es == IF Bool(t2.stopping_step)
                  THEN _early_stopping(t2, score, epoch_idx)
                  ELSE [self |-> t2, ret |-> FALSE]
        IN  [self |-> es.self,
             disk |-> save_checkpoint(es.self, d, None, TRUE),
             ret |-> es.ret,
             ran |-> TRUE]

(* Python's list[i]: None stands for IndexError *)
PyIndex(list, i) ==
    IF 0 <= i /\ i < Len(list) THEN Some(list[i + 1])
    ELSE IF i < 0 /\ -Len(list) <= i THEN Some(list[Len(list) + i + 1])
    ELSE None

(* Trainer.best_result *)
best_result(t) == PyIndex(t.result_list, t.best_epoch)

---------------------------------------------------------------------------
Disk == [files |-> files, links |-> links, log |-> save_log, raised |-> ""]

(* EpochTracker. A float is [nan, v]: NaN, or v units. A quotient of a    *)
(* float by a count is [nan, num, den], and den = 0 is math.inf.           *)

Float(v) == [nan |-> FALSE, v |-> v]
NaN == [nan |-> TRUE, v |-> 0]

(* math.isnan *)
isnan(x) == x.nan

(* float + float *)
FAdd(a, b) == IF a.nan \/ b.nan THEN NaN ELSE Float(a.v + b.v)

(* float / int, and math.inf *)
FDiv(a, n) == [nan |-> a.nan, num |-> a.v, den |-> n]
Inf == [nan |-> FALSE, num |-> 1, den |-> 0]

(* Python truthiness of an Optional[float]: None and 0.0 are falsy *)
Truthy(o) == o # None /\ (o[1].nan \/ o[1].num # 0 \/ o[1].den = 0)

(* EpochTracker.__init__ *)
EpochTracker(epoch_idx, DDP, train) ==
    [epoch_idx |-> epoch_idx,
     _accumulate_loss |-> Float(0),
     _accumulate_step |-> 0,
     _loss |-> None,
     metrics_results |-> [m \in {} |-> None],
     _score |-> None,
     _DDP |-> DDP,
     mode_tag |-> IF train THEN "train" ELSE "valid"]

(* Mutant of append_loss: the loss is sent to the dashboard before the NaN *)
(* test.                                                                   *)
Mutant_append_loss_LogFirst(tr, dash, loss) ==
    LET dash1 == Append(dash, [name |-> "loss", mode |-> tr.mode_tag,
                               value |-> loss])
    IN  IF isnan(loss)
        THEN [tracker |-> tr, dashboard |-> dash1, raised |-> "ValueError"]
        ELSE [tracker |-> [tr EXCEPT
                             !._accumulate_loss = FAdd(@, loss),
                             !._accumulate_step = @ + 1],
              dashboard |-> dash1,
              raised |-> ""]

(* EpochTracker.append_loss: the tracker and the dashboard after the call, *)
(* and the exception raised                                                *)
append_loss(tr, dash, loss) ==
    IF isnan(loss)
    THEN [tracker |-> tr, dashboard |-> dash, raised |-> "ValueError"]
    ELSE [tracker |-> [tr EXCEPT
                         !._accumulate_loss = FAdd(@, loss),
                         !._accumulate_step = @ + 1],
          dashboard |-> Append(dash, [name |-> "loss", mode |-> tr.mode_tag,
                                      value |-> loss]),
          raised |-> ""]

(* Mutant of _calc_loss: the sum is divided by the index of the last step. *)
Mutant_calc_loss_OffByOne(tr) ==
    IF tr._accumulate_step = 0 THEN Inf
    ELSE FDiv(tr._accumulate_loss, tr._accumulate_step - 1)

(* EpochTracker._calc_loss in single-process mode (_DDP false) *)
_calc_loss(tr) ==
    IF tr._accumulate_step = 0 THEN Inf
    ELSE FDiv(tr._accumulate_loss, tr._accumulate_step)

(* EpochTracker.loss: the tracker after the read, and the value read *)
loss(tr) ==
    LET tr1 == IF ~Truthy(tr._loss)
               THEN [tr EXCEPT !._loss = Some(_calc_loss(tr))]
               ELSE tr
    IN  [tracker |-> tr1, ret |-> tr1._loss[1]]

(* A metric result (MetricsDict): a float, a dict or a collection whose   *)
(* members are floats or not, or a value of another type. A member is      *)
(* [float, v].                                                             *)
Member(v) == [float |-> TRUE, v |-> v]
NonFloat == [float |-> FALSE, v |-> 0]

(* quotient + quotient, and -quotient *)
QAdd(a, b) == [nan |-> a.nan \/ b.nan,
               num |-> a.num * b.den + b.num * a.den,
               den |-> a.den * b.den]
QNeg(a) == [a EXCEPT !.num = -a.num]

RECURSIVE SumSeq(_)
SumSeq(fl) == IF fl = << >> THEN 0 ELSE fl[1].v + SumSeq(Tail(fl))

(* The float_list that _calc_score takes from one result *)
float_list(result) ==
    IF result.kind = "float" THEN <<Member(result.v)>>
    ELSE IF result.kind \in {"dict", "collection"}
    THEN SelectSeq(result.members, LAMBDA x : x.float)
    ELSE << >>

(* EpochTracker.set_result *)
set_result(tr, dash, results) ==
    [tracker |-> [tr EXCEPT !.metrics_results =
                     [m \in (DOMAIN tr.metrics_results) \cup (DOMAIN results) |->
                        IF m \in DOMAIN results THEN results[m]
                        ELSE tr.metrics_results[m]]],
     dashboard |-> Append(dash, [name |-> "metrics", mode |-> tr.mode_tag,
                                 value |-> results])]

(* `score += sum(float_list) / len(float_list)` over the metrics of names *)
RECURSIVE SumAverages(_, _)
SumAverages(results, names) ==
    IF names = {} THEN FDiv(Float(0), 1)
    ELSE LET m == CHOOSE n \in names : TRUE
             fl == float_list(results[m])
         IN  QAdd(SumAverages(results, names \ {m}),
                  FDiv(Float(SumSeq(fl)), Len(fl)))

(* Mutant of _calc_score: the sum of the averages is divided by the        *)
(* number of metrics.                                                      *)
Mutant_calc_score_Mean(tr, dash) ==
    LET counted == {m \in DOMAIN tr.metrics_results :
                       float_list(tr.metrics_results[m]) # << >>}
        total == SumAverages(tr.metrics_results, counted)
        score == [total EXCEPT !.den = @ * Cardinality(DOMAIN tr.metrics_results)]
    IN  IF counted # {}
        THEN [tracker |-> tr,
              dashboard |-> Append(dash, [name |-> "metrics/score",
                                          mode |-> tr.mode_tag,
                                          value |-> score]),
              ret |-> score]
        ELSE [tracker |-> loss(tr).tracker, dashboard |-> dash,
              ret |-> QNeg(loss(tr).ret)]

(* Mutant of _calc_score: a metric with no float member counts as 0. *)
Mutant_calc_score_NoFallback(tr, dash) ==
    LET counted == {m \in DOMAIN tr.metrics_results :
                       float_list(tr.metrics_results[m]) # << >>}
        score == SumAverages(tr.metrics_results, counted)
    IN  IF DOMAIN tr.metrics_results # {}
        THEN [tracker |-> tr,
              dashboard |-> Append(dash, [name |-> "metrics/score",
                                          mode |-> tr.mode_tag,
                                          value |-> score]),
              ret |-> score]
        ELSE [tracker |-> loss(tr).tracker, dashboard |-> dash,
              ret |-> QNeg(loss(tr).ret)]

(* EpochTracker._calc_score: the tracker and the dashboard after the call  *)
(* and the score (metrics_results is a dict from __init__ on, never None). *)
_calc_score(tr, dash) ==
    LET counted == {m \in DOMAIN tr.metrics_results :
                       float_list(tr.metrics_results[m]) # << >>}
        score == SumAverages(tr.metrics_results, counted)
    IN  IF counted # {}
        THEN [tracker |-> tr,
              dashboard |-> Append(dash, [name |-> "metrics/score",
                                          mode |-> tr.mode_tag,
                                          value |-> score]),
              ret |-> score]
        ELSE [tracker |-> loss(tr).tracker, dashboard |-> dash,
              ret |-> QNeg(loss(tr).ret)]

(* EpochTracker.score: None in train mode *)
EpochTracker_score(tr, dash) ==
    IF tr.mode_tag = "train"
    THEN [tracker |-> tr, dashboard |-> dash, ret |-> None]
    ELSE IF ~Truthy(tr._score)
    THEN LET c == _calc_score(tr, dash)
         IN  [tracker |-> [c.tracker EXCEPT !._score = Some(c.ret)],
              dashboard |-> c.dashboard,
              ret |-> Some(c.ret)]
    ELSE [tracker |-> tr, dashboard |-> dash, ret |-> tr._score]

---------------------------------------------------------------------------
(* Mutant of resume_checkpoint: training restarts at the saved epoch. *)
Mutant_resume_checkpoint_SameEpoch(t, resume_file) ==
    IF resume_file = None THEN [self |-> t, raised |-> ""]
    ELSE
    LET checkpoint == resume_file[1]
        t1 == [t EXCEPT !.start_epoch = checkpoint.epoch]
    IN  IF checkpoint.stopping_count = 0
        THEN [self |-> t1, raised |-> "KeyError"]
        ELSE [self |-> [t1 EXCEPT
                          !.stopping_count = checkpoint.stopping_count,
                          !.best_valid_score = checkpoint.best_valid_score,
                          !.model = checkpoint.state_dict,
                          !.optimizer = checkpoint.optimizer],
              raised |-> ""]

(* Mutant of resume_checkpoint: best_valid_score is not restored. *)
Mutant_resume_checkpoint_NoBest(t, resume_file) ==
    IF resume_file = None THEN [self |-> t, raised |-> ""]
    ELSE
    LET checkpoint == resume_file[1]
        t1 == [t EXCEPT !.start_epoch = checkpoint.epoch + 1]
    IN  IF checkpoint.stopping_count = 0
        THEN [self |-> t1, raised |-> "KeyError"]
        ELSE [self |-> [t1 EXCEPT
                          !.stopping_count = checkpoint.stopping_count,
                          !.model = checkpoint.state_dict,
                          !.optimizer = checkpoint.optimizer],
              raised |-> ""]

(* Mutant of resume_checkpoint: torch.load is tried on the missing file. *)
Mutant_resume_checkpoint_MissingRaises(t, resume_file) ==
    IF resume_file = None THEN [self |-> t, raised |-> "FileNotFoundError"]
    ELSE
    LET checkpoint == resume_file[1]
        t1 == [t EXCEPT !.start_epoch = checkpoint.epoch + 1]
    IN  IF checkpoint.stopping_count = 0
        THEN [self |-> t1, raised |-> "KeyError"]
        ELSE [self |-> [t1 EXCEPT
                          !.stopping_count = checkpoint.stopping_count,
                          !.best_valid_score = checkpoint.best_valid_score,
                          !.model = checkpoint.state_dict,
                          !.optimizer = checkpoint.optimizer],
              raised |-> ""]

(* Trainer.resume_checkpoint(resume_file): resume_file is None when no    *)
(* file is at the path, else the checkpoint the file holds. A checkpoint   *)
(* written by save_checkpoint has no key 'cur_step'.                       *)
resume_checkpoint(t, resume_file) ==
    IF resume_file = None THEN [self |-> t, raised |-> ""]
    ELSE
    LET checkpoint == resume_file[1]
        t1 == [t EXCEPT !.start_epoch = checkpoint.epoch + 1]
    IN  IF checkpoint.stopping_count = 0
        THEN [self |-> t1, raised |-> "KeyError"]
        ELSE [self |-> [t1 EXCEPT
                          !.stopping_count = checkpoint.stopping_count,
                          !.best_valid_score = checkpoint.best_valid_score,
                          !.model = checkpoint.state_dict,
                          !.optimizer = checkpoint.optimizer],
              raised |-> ""]

(* Checkpoints an earlier run left, at paths that are not this run's:      *)
(* written at epoch e with stopping_count c after a validation pass that   *)
(* scored b - c against a best score of b.               *)
PriorCheckpoints ==
    {[state_dict |-> m,
      optimizer |-> m,
      stopping_count |-> c,
      best_valid_score |-> b,
      epoch |-> e,
      summary |-> [epoch_idx |-> e, score |-> b - c]] :
        e \in 0..(MaxEpochs - 1), c \in 0..MaxPriorCount, b \in PriorScores,
        m \in PriorParams}

Init ==
    /\ config \in Configs
    /\ train_data \in 1..MaxBatches
    /\ config.epochs * train_data <= MaxSteps
    /\ valid_data \in BOOLEAN
    /\ self = Trainer(config)
    /\ files = [p \in {} |-> None]
    /\ links = [p \in {} |-> None]
    /\ save_log = << >>
    /\ pc = "idle"
    /\ it = 0
    /\ batch = 0
    /\ optimizer_steps = 0
    /\ valid_ret = None
    /\ fit_result = None
    /\ error = ""
    /\ call = [op |-> "none"]
    /\ tracker = EpochTracker(0, FALSE, TRUE)
    /\ dashboard = << >>
    /\ ranks = << >>

(* The caller resumes from a checkpoint file, or from a missing path. *)
ResumeCheckpoint ==
    /\ pc = "idle"
    /\ \E resume_file \in {None} \cup {Some(c) : c \in PriorCheckpoints} :
         LET r == resume_checkpoint(self, resume_file)
         IN  /\ self' = r.self
             /\ error' = r.raised
             /\ pc' = IF r.raised = "" THEN "idle" ELSE "raised"
    /\ UNCHANGED <<config, train_data, valid_data, files, links, save_log, it,
                   batch, optimizer_steps, valid_ret, fit_result>>
    /\ UNCHANGED aux

(* fit is called: `for epoch_idx in range(self.start_epoch, self.epochs)` *)
Fit ==
    /\ pc = "idle"
    /\ pc' = "for"
    /\ it' = self.start_epoch
    /\ UNCHANGED <<config, train_data, valid_data, self, files, links,
                   save_log, batch, optimizer_steps, valid_ret, fit_result,
                   error>>
    /\ UNCHANGED aux

(* Mutant of ForEpoch: the range iterator does not advance. *)
Mutant_ForEpoch_NoAdvance ==
    /\ pc = "for"
    /\ IF it < self.epochs
       THEN /\ self' = [self EXCEPT !.epoch_idx = it]
            /\ it' = it
            /\ batch' = 0
            /\ pc' = IF train_data = 0 THEN "epoch_end" ELSE "train"
       ELSE /\ pc' = "return"
            /\ UNCHANGED <<self, it, batch>>
    /\ UNCHANGED <<config, train_data, valid_data, files, links, save_log,
                   optimizer_steps, valid_ret, fit_result, error>>
    /\ UNCHANGED aux

(* The head of fit's loop: the next epoch begins, or the loop is exhausted. *)
ForEpoch ==
    /\ pc = "for"
    /\ IF it < self.epochs
       THEN /\ self' = [self EXCEPT !.epoch_idx = it]
            /\ it' = it + 1
            /\ batch' = 0
            /\ pc' = IF train_data = 0 THEN "epoch_end" ELSE "train"
       ELSE /\ pc' = "return"
            /\ UNCHANGED <<self, it, batch>>
    /\ UNCHANGED <<config, train_data, valid_data, files, links, save_log,
                   optimizer_steps, valid_ret, fit_result, error>>
    /\ UNCHANGED aux

(* optimizer.step(): the parameters and the optimizer state move on *)
Step(t) == [t EXCEPT !.model = @ + 1, !.optimizer = @ + 1]

(* One iteration of _train_epoch's loop: the optimizer step on one batch,  *)
(* then the step-position _valid call.                                     *)
TrainBatch ==
    /\ pc = "train"
    /\ optimizer_steps' = optimizer_steps + 1
    /\ batch' = batch + 1
    /\ IF valid_data
       THEN \E score \in Scores :
              LET v == _valid(Step(self), Disk, self.epoch_idx, "step", score)
                  stopped == self.stopped /\ v.ret
              IN  /\ self' = [v.self EXCEPT !.stopped = stopped]
                  /\ files' = v.disk.files
                  /\ links' = v.disk.links
                  /\ save_log' = v.disk.log
                  /\ valid_ret' = Some(v.ret)
                  /\ error' = v.disk.raised
                  /\ pc' = IF v.disk.raised # "" THEN "raised"
                           ELSE IF stopped \/ batch + 1 = train_data
                           THEN "epoch_end" ELSE "train"
       ELSE /\ self' = Step(self)
            /\ pc' = IF batch + 1 = train_data THEN "epoch_end" ELSE "train"
            /\ UNCHANGED <<files, links, save_log, valid_ret, error>>
    /\ UNCHANGED <<config, train_data, valid_data, it, fit_result>>
    /\ UNCHANGED aux

(* Mutant of EpochEnd: the epoch-position _valid call is made without the  *)
(* `if valid_data` test.                                                   *)
Mutant_EpochEnd_NoDataTest ==
    /\ pc = "epoch_end"
    /\ LET t == [self EXCEPT !.train_loss_list =
                      Append(self.train_loss_list, self.epoch_idx)]
       IN  IF TRUE
           THEN \E score \in Scores :
                  LET v == _valid(t, Disk, t.epoch_idx, "epoch", score)
                      stopped == t.stopped /\ v.ret
                  IN  /\ self' = [v.self EXCEPT !.stopped = stopped]
                      /\ files' = v.disk.files
                      /\ links' = v.disk.links
                      /\ save_log' = v.disk.log
                      /\ valid_ret' = Some(v.ret)
                      /\ error' = v.disk.raised
                      /\ pc' = IF v.disk.raised # "" THEN "raised"
                               ELSE IF stopped THEN "return" ELSE "for"
           ELSE /\ self' = t
                /\ pc' = "for"
                /\ UNCHANGED <<files, links, save_log, valid_ret, error>>
    /\ UNCHANGED <<config, train_data, valid_data, it, batch, optimizer_steps,
                   fit_result>>
    /\ UNCHANGED aux

(* fit after _train_epoch returns: the train loss is recorded, then the    *)
(* epoch-position _valid call.                                             *)
EpochEnd ==
    /\ pc = "epoch_end"
    /\ LET t == [self EXCEPT !.train_loss_list =
                      Append(self.train_loss_list, self.epoch_idx)]
       IN  IF valid_data
           THEN \E score \in Scores :
                  LET v == _valid(t, Disk, t.epoch_idx, "epoch", score)
                      stopped == t.stopped /\ v.ret
                  IN  /\ self' = [v.self EXCEPT !.stopped = stopped]
                      /\ files' = v.disk.files
                      /\ links' = v.disk.links
                      /\ save_log' = v.disk.log
                      /\ valid_ret' = Some(v.ret)
                      /\ error' = v.disk.raised
                      /\ pc' = IF v.disk.raised # "" THEN "raised"
                               ELSE IF stopped THEN "return" ELSE "for"
           ELSE /\ self' = t
                /\ pc' = "for"
                /\ UNCHANGED <<files, links, save_log, valid_ret, error>>
    /\ UNCHANGED <<config, train_data, valid_data, it, batch, optimizer_steps,
                   fit_result>>
    /\ UNCHANGED aux

(* `return self.best_result` *)
FitReturn ==
    /\ pc = "return"
    /\ fit_result' = best_result(self)
    /\ IF best_result(self) = None
       THEN pc' = "raised" /\ error' = "IndexError"
       ELSE pc' = "done" /\ UNCHANGED error
    /\ UNCHANGED <<config, train_data, valid_data, self, files, links,
                   save_log, it, batch, optimizer_steps, valid_ret>>
    /\ UNCHANGED aux

Next ==
    \/ ResumeCheckpoint
    \/ Fit
    \/ ForEpoch
    \/ TrainBatch
    \/ EpochEnd
    \/ FitReturn


Spec == Init /\ [][Next]_vars

---------------------------------------------------------------------------
(* The Trainer's callers. A session makes one call besides fit: it        *)
(* resumes before fit, or after fit it saves a checkpoint by hand,         *)
(* evaluates, or is restarted from one of the checkpoints it wrote and     *)
(* runs fit again. Saving and evaluating can also come before fit.         *)

(* self.saved_model_filename, and the best pointer next to it *)
saved_model_filename == Path(None, "")
BestPointer == Path(None, ".pth")

(* Trainer._save_generated_text opens self.saved_text_file + '.txt';       *)
(* __init__ sets saved_text_filename and nothing sets saved_text_file:     *)
(* the exception the call raises                                           *)
_save_generated_text == "AttributeError"

(* torch.load(path): the record in the file, read through a link *)
TorchLoad(d, p) ==
    IF p \in DOMAIN d.files THEN d.files[p] ELSE d.files[d.links[p]]

(* Mutant of evaluate: load_best_model is not forced to False when        *)
(* is_valid.                                                               *)
Mutant_evaluate_LoadInValidation(t, d, metrics, valid_metrics, load_best_model, model_file, _eval, is_valid) ==
    LET _metrics == IF is_valid THEN valid_metrics ELSE metrics
        load == load_best_model
        checkpoint_file == IF model_file # None THEN model_file[1]
                           ELSE saved_model_filename
        t1 == IF load
              THEN [t EXCEPT !.model = TorchLoad(d, checkpoint_file).state_dict]
              ELSE t
        loaded == IF load THEN Some(checkpoint_file) ELSE None
    IN  IF load /\ ~Exists(d, checkpoint_file)
        THEN [self |-> t, ret |-> None, loaded |-> None,
              generated |-> FALSE, evaluated |-> FALSE, evaluator |-> "",
              raised |-> ""]
        ELSE IF ~_eval \/ _metrics = 0
        THEN [self |-> t1, ret |-> Some("preview"), loaded |-> loaded,
              generated |-> TRUE, evaluated |-> FALSE, evaluator |-> "",
              raised |-> ""]
        ELSE IF _save_generated_text # ""
        THEN [self |-> t1, ret |-> None, loaded |-> loaded,
              generated |-> TRUE, evaluated |-> FALSE, evaluator |-> "",
              raised |-> _save_generated_text]
        ELSE [self |-> t1, ret |-> Some("result"), loaded |-> loaded,
              generated |-> TRUE, evaluated |-> TRUE,
              evaluator |-> "evaluator", raised |-> ""]

(* Mutant of evaluate: a missing checkpoint file is skipped and the        *)
(* evaluation goes on with the parameters in memory.                       *)
Mutant_evaluate_SkipMissing(t, d, metrics, valid_metrics, load_best_model, model_file, _eval, is_valid) ==
    LET _metrics == IF is_valid THEN valid_metrics ELSE metrics
        load == load_best_model /\ ~is_valid
        checkpoint_file == IF model_file # None THEN model_file[1]
                           ELSE saved_model_filename
        found == load /\ Exists(d, checkpoint_file)
        t1 == IF found
              THEN [t EXCEPT !.model = TorchLoad(d, checkpoint_file).state_dict]
              ELSE t
        loaded == IF found THEN Some(checkpoint_file) ELSE None
    IN  IF ~_eval \/ _metrics = 0
        THEN [self |-> t1, ret |-> Some("preview"), loaded |-> loaded,
              generated |-> TRUE, evaluated |-> FALSE, evaluator |-> "",
              raised |-> ""]
        ELSE [self |-> t1, ret |-> None, loaded |-> loaded,
              generated |-> TRUE, evaluated |-> FALSE, evaluator |-> "",
              raised |-> "AttributeError"]

(* Trainer.evaluate, with metrics and valid_metrics the numbers of         *)
(* configured metrics: the Trainer after the call, the value returned,     *)
(* the checkpoint file loaded, whether text was generated, whether the     *)
(* evaluator ran, and the exception raised. A full evaluation raises in     *)
(* _save_generated_text, which reads self.saved_text_file, an attribute    *)
(* that is never set (__init__ sets saved_text_filename), so the evaluator *)
(* call after it is not reached; that call is self.evaluator.evaluate      *)
(* whatever is_valid is.                                                   *)
evaluate(t, d, metrics, valid_metrics, load_best_model, model_file, _eval, is_valid) ==
    LET _metrics == IF is_valid THEN valid_metrics ELSE metrics
        load == load_best_model /\ ~is_valid
        checkpoint_file == IF model_file # None THEN model_file[1]
                           ELSE saved_model_filename
        t1 == IF load
              THEN [t EXCEPT !.model = TorchLoad(d, checkpoint_file).state_dict]
              ELSE t
        loaded == IF load THEN Some(checkpoint_file) ELSE None
    IN  IF load /\ ~Exists(d, checkpoint_file)
        THEN [self |-> t, ret |-> None, loaded |-> None,
              generated |-> FALSE, evaluated |-> FALSE, evaluator |-> "",
              raised |-> ""]
        ELSE IF ~_eval \/ _metrics = 0
        THEN [self |-> t1, ret |-> Some("preview"), loaded |-> loaded,
              generated |-> TRUE, evaluated |-> FALSE, evaluator |-> "",
              raised |-> ""]
        ELSE IF _save_generated_text # ""
        THEN [self |-> t1, ret |-> None, loaded |-> loaded,
              generated |-> TRUE, evaluated |-> FALSE, evaluator |-> "",
              raised |-> _save_generated_text]
        ELSE [self |-> t1, ret |-> Some("result"), loaded |-> loaded,
              generated |-> TRUE, evaluated |-> TRUE,
              evaluator |-> "evaluator", raised |-> ""]

(* The configurations of the sessions: validation every epoch, every       *)
(* second epoch or every step, early stopping off or with patience 1.      *)
ApiConfigs ==
    {cfg \in Configs :
       /\ <<cfg.eval_epoch, cfg.eval_step>> \in
            {<<Some(1), None>>, <<Some(2), None>>, <<None, Some(1)>>}
       /\ cfg.stopping_step \in {None, Some(1)}}

InitApi ==
    /\ Init
    /\ config \in ApiConfigs
    /\ config.epochs * train_data <= MaxEpochs
    /\ valid_data

(* The caller resumes from an earlier run's checkpoint file, or from a     *)
(* path where there is no file, before fit.                                *)
CallResumeCheckpoint ==
    /\ pc = "idle"
    /\ call.op = "none"
    /\ \E resume_file \in {None} \cup {Some(c) : c \in PriorCheckpoints} :
         LET r == resume_checkpoint(self, resume_file)
         IN  /\ self' = r.self
             /\ error' = r.raised
             /\ pc' = IF r.raised = "" THEN "idle" ELSE "raised"
             /\ call' = [op |-> "resume_checkpoint",
                         checkpoint |-> resume_file,
                         restart |-> FALSE]
    /\ UNCHANGED <<config, train_data, valid_data, files, links, save_log, it,
                   batch, optimizer_steps, valid_ret, fit_result, tracker,
                   dashboard, ranks>>

(* The session ended and a new process takes it up: a Trainer is built     *)
(* from the same configuration and resumes from a checkpoint file that the *)
(* ended process wrote, named directly or through the best pointer.        *)
Restart ==
    /\ pc \in {"done", "raised"}
    /\ call.op = "none"
    /\ \E p \in (DOMAIN files) \cup (DOMAIN links) :
         LET resume_file == Some(TorchLoad(Disk, p))
             r == resume_checkpoint(Trainer(config), resume_file)
         IN  /\ self' = r.self
             /\ error' = r.raised
             /\ pc' = IF r.raised = "" THEN "idle" ELSE "raised"
             /\ call' = [op |-> "resume_checkpoint",
                         checkpoint |-> resume_file,
                         restart |-> TRUE]
    /\ it' = 0
    /\ batch' = 0
    /\ optimizer_steps' = 0
    /\ valid_ret' = None
    /\ fit_result' = None
    /\ UNCHANGED <<config, train_data, valid_data, files, links, save_log,
                   tracker, dashboard, ranks>>

(* Mutant of train_step: the optimizer step runs before the loss is        *)
(* appended to the tracker.                                                *)
Mutant_train_step_StepFirst(t, steps, batch_loss) ==
    [self |-> Step(t), optimizer_steps |-> steps + 1,
     raised |-> append_loss(EpochTracker(t.epoch_idx, FALSE, TRUE),
                            << >>, batch_loss).raised]

(* The body of _train_epoch's loop up to the optimizer step, on a batch    *)
(* whose forward pass gives batch_loss: append_loss, then backward and step    *)
train_step(t, steps, batch_loss) ==
    LET a == append_loss(EpochTracker(t.epoch_idx, FALSE, TRUE), << >>, batch_loss)
    IN  IF a.raised # ""
        THEN [self |-> t, optimizer_steps |-> steps, raised |-> a.raised]
        ELSE [self |-> Step(t), optimizer_steps |-> steps + 1, raised |-> ""]

(* One iteration of _train_epoch's loop on a batch whose loss is NaN *)
TrainBatchNaN ==
    /\ pc = "train"
    /\ LET r == train_step(self, optimizer_steps, NaN)
       IN  /\ self' = r.self
           /\ optimizer_steps' = r.optimizer_steps
           /\ error' = r.raised
           /\ pc' = "raised"
    /\ UNCHANGED <<config, train_data, valid_data, files, links, save_log, it,
                   batch, valid_ret, fit_result>>
    /\ UNCHANGED aux

(* A validation pass of fit that is due, when valid_metrics is configured:  *)
(* _valid_epoch calls evaluate(valid_data, load_best_model=False,          *)
(* is_valid=True) after the batch or the epoch it follows.                 *)
ValidEvaluate ==
    /\ pc \in {"train", "epoch_end"}
    /\ valid_data
    /\ call.op = "none"
    /\ \E valid_metrics \in 1..MaxMetrics :
         LET position == IF pc = "train" THEN "step" ELSE "epoch"
             t == IF pc = "train" THEN Step(self)
                  ELSE [self EXCEPT !.train_loss_list =
                           Append(self.train_loss_list, self.epoch_idx)]
             t1 == [t EXCEPT !._eval_count = t._eval_count + 1]
             r == evaluate(t1, Disk, 0, valid_metrics, FALSE, None, TRUE, TRUE)
         IN  /\ _valid(t, Disk, t.epoch_idx, position, 0).ran
             /\ self' = r.self
             /\ error' = r.raised
             /\ pc' = IF r.raised # "" THEN "raised" ELSE pc
             /\ call' = [op |-> "valid_evaluate",
                         valid_metrics |-> valid_metrics,
                         ret |-> r.ret,
                         evaluated |-> r.evaluated,
                         evaluator |-> r.evaluator]
    /\ optimizer_steps' = IF pc = "train" THEN optimizer_steps + 1
                          ELSE optimizer_steps
    /\ batch' = IF pc = "train" THEN batch + 1 ELSE batch
    /\ UNCHANGED <<config, train_data, valid_data, files, links, save_log, it,
                   valid_ret, fit_result, tracker, dashboard, ranks>>

(* The caller evaluates with is_valid=True, as a validation pass does but  *)
(* with any load_best_model and model_file, before or after fit.           *)
CallEvaluateValid ==
    /\ pc \in {"idle", "done"}
    /\ call.op = "none"
    /\ \E valid_metrics \in 0..MaxMetrics,
          load_best_model \in BOOLEAN,
          model_file \in {None} \cup {Some(p) : p \in DOMAIN links} :
         LET r == evaluate(self, Disk, 0, valid_metrics, load_best_model,
                           model_file, TRUE, TRUE)
         IN  /\ self' = r.self
             /\ error' = r.raised
             /\ call' = [op |-> "evaluate_valid",
                         load_best_model |-> load_best_model,
                         model_file |-> model_file,
                         ret |-> r.ret,
                         loaded |-> r.loaded]
    /\ pc' = "end"
    /\ UNCHANGED <<config, train_data, valid_data, files, links, save_log, it,
                   batch, optimizer_steps, valid_ret, fit_result, tracker,
                   dashboard, ranks>>

(* The caller saves a checkpoint by hand, before or after fit. *)
CallSaveCheckpoint ==
    /\ pc \in {"idle", "done"}
    /\ call.op = "none"
    /\ \E tag \in {None} \cup {Some(e) : e \in 0..(MaxEpochs - 1)},
          overwrite \in BOOLEAN :
         LET d == save_checkpoint(self, Disk, tag, overwrite)
         IN  /\ files' = d.files
             /\ links' = d.links
             /\ save_log' = d.log
             /\ error' = d.raised
             /\ call' = [op |-> "save_checkpoint", tag |-> tag,
                         overwrite |-> overwrite]
    /\ pc' = "end"
    /\ UNCHANGED <<config, train_data, valid_data, self, it, batch,
                   optimizer_steps, valid_ret, fit_result, tracker, dashboard,
                   ranks>>

(* The caller evaluates, before or after fit: with the default checkpoint  *)
(* file, with the best pointer, or with a path where no file is.           *)
CallEvaluate ==
    /\ pc \in {"idle", "done"}
    /\ call.op = "none"
    /\ \E metrics \in 0..MaxMetrics,
          load_best_model \in BOOLEAN,
          model_file \in {None, Some(Path(Some(MaxEpochs), ".pth"))}
                           \cup {Some(p) : p \in DOMAIN links},
          _eval \in BOOLEAN :
         LET r == evaluate(self, Disk, metrics, 0, load_best_model, model_file,
                           _eval, FALSE)
         IN  /\ self' = r.self
             /\ error' = r.raised
             /\ call' = [op |-> "evaluate",
                         load_best_model |-> load_best_model,
                         model_file |-> model_file,
                         ret |-> r.ret,
                         loaded |-> r.loaded,
                         generated |-> r.generated,
                         evaluated |-> r.evaluated]
    /\ pc' = "end"
    /\ UNCHANGED <<config, train_data, valid_data, files, links, save_log, it,
                   batch, optimizer_steps, valid_ret, fit_result, tracker,
                   dashboard, ranks>>

NextApi ==
    \/ CallResumeCheckpoint
    \/ Restart
    \/ Fit
    \/ ForEpoch
    \/ TrainBatch
    \/ TrainBatchNaN
    \/ ValidEvaluate
    \/ EpochEnd
    \/ FitReturn
    \/ CallSaveCheckpoint
    \/ CallEvaluate
    \/ CallEvaluateValid

SpecApi == InitApi /\ [][NextApi]_vars

(* fit is sequential code over finite data sources: once called, each of   *)
(* its steps is taken unless an exception ends it.                         *)
LiveApi ==
    /\ SpecApi
    /\ WF_vars(ForEpoch)
    /\ WF_vars(TrainBatch)
    /\ WF_vars(EpochEnd)
    /\ WF_vars(FitReturn)

---------------------------------------------------------------------------
(* The EpochTracker alone: a caller that appends losses and reads loss in  *)
(* any order.                                                              *)

main == <<config, train_data, valid_data, self, files, links, save_log, pc,
          it, batch, optimizer_steps, valid_ret, fit_result, ranks>>

Losses == {Float(v) : v \in 0..MaxLoss} \cup {NaN}

InitTracker ==
    /\ Init
    /\ config = [eval_epoch |-> None, eval_step |-> None,
                 stopping_step |-> None, epochs |-> 0]
    /\ train_data = 1
    /\ ~valid_data

(* tracker.append_loss(l) *)
AppendLoss ==
    /\ tracker._accumulate_step < MaxAppends
    /\ \E l \in Losses :
         LET r == append_loss(tracker, dashboard, l)
         IN  /\ tracker' = r.tracker
             /\ dashboard' = r.dashboard
             /\ error' = r.raised
             /\ call' = [op |-> "append_loss", loss |-> l]
    /\ UNCHANGED main

(* tracker.loss *)
ReadLoss ==
    /\ tracker' = loss(tracker).tracker
    /\ call' = [op |-> "loss", ret |-> loss(tracker).ret,
                cached |-> Truthy(tracker._loss),
                again |-> call.op = "loss"]
    /\ error' = ""
    /\ UNCHANGED <<main, dashboard>>

NextTracker ==
    \/ AppendLoss
    \/ ReadLoss

SpecTracker == InitTracker /\ [][NextTracker]_vars

---------------------------------------------------------------------------
(* A tracker of either mode, used as _valid_epoch uses it: the losses are  *)
(* appended, then set_result is called once, then loss and score are read. *)

MetricNames == {"bleu", "rouge"}

ResultValues ==
    {[kind |-> "float", v |-> v] : v \in 0..MaxLoss}
    \cup {[kind |-> k, members |-> ms] :
            k \in {"dict", "collection"},
            ms \in {<< >>, <<NonFloat>>, <<Member(1), Member(2)>>,
                    <<Member(2), NonFloat>>}}
    \cup {[kind |-> "other"]}

InitScore ==
    /\ config = [eval_epoch |-> None, eval_step |-> None,
                 stopping_step |-> None, epochs |-> 0]
    /\ train_data = 1
    /\ valid_data = FALSE
    /\ self = Trainer(config)
    /\ files = [p \in {} |-> None]
    /\ links = [p \in {} |-> None]
    /\ save_log = << >>
    /\ pc = "idle"
    /\ it = 0
    /\ batch = 0
    /\ optimizer_steps = 0
    /\ valid_ret = None
    /\ fit_result = None
    /\ error = ""
    /\ call = [op |-> "none"]
    /\ tracker \in {EpochTracker(0, FALSE, train) : train \in BOOLEAN}
    /\ dashboard = << >>
    /\ ranks = << >>

(* tracker.append_loss(l), before set_result *)
AppendLossBefore ==
    /\ call.op \in {"none", "append_loss"}
    /\ AppendLoss

(* tracker.set_result(results) *)
SetResult ==
    /\ call.op \in {"none", "append_loss"}
    /\ \E names \in SUBSET MetricNames :
         \E results \in [names -> ResultValues] :
            LET r == set_result(tracker, dashboard, results)
            IN  /\ tracker' = r.tracker
                /\ dashboard' = r.dashboard
                /\ call' = [op |-> "set_result", results |-> results]
    /\ error' = ""
    /\ UNCHANGED main

(* tracker.score *)
ReadScore ==
    /\ call.op \in {"set_result", "loss", "score"}
    /\ Len(dashboard) < MaxAppends + MaxReads
    /\ LET r == EpochTracker_score(tracker, dashboard)
       IN  /\ tracker' = r.tracker
           /\ dashboard' = r.dashboard
           /\ call' = [op |-> "score", ret |-> r.ret,
                       cached |-> Truthy(tracker._score),
                       again |-> call.op = "score"]
    /\ error' = ""
    /\ UNCHANGED main

(* tracker.loss, after set_result *)
ReadLossAfter ==
    /\ call.op \in {"set_result", "loss", "score"}
    /\ ReadLoss

NextScore ==
    \/ AppendLossBefore
    \/ SetResult
    \/ ReadScore
    \/ ReadLossAfter

SpecScore == InitScore /\ [][NextScore]_vars

---------------------------------------------------------------------------
(* Trainer._process_metrics on one configured value. A string is a         *)
(* sequence of characters; a configured value is a record with its type.   *)

Chars == {"a", "A", "c", ",", " ", "[", "]"}

(* textbox.evaluator.evaluator_list: the supported names *)
evaluator_list == {<<"a">>, <<"c">>}

Strings(n) == UNION {[1..k -> Chars] : k \in 0..n}

(* The names a list is configured with: no comma and no bracket in them *)
Items == UNION {[1..k -> {"a", "A", "c", " "}] : k \in 0..2}

(* A configured value: its type, and its characters (str), its items     *)
(* (list, tuple) or its number (int, bool; None has none)                  *)
Value(type, str, items, num) ==
    [type |-> type, str |-> str, items |-> items, num |-> num]

MetricConfigs ==
    {Value("str", str, << >>, 0) : str \in Strings(MaxLen)}
    \cup {Value("list", << >>, l, 0) :
            l \in UNION {[1..k -> Items] : k \in 0..2}}
    \cup {Value("NoneType", << >>, << >>, 0)}
    \cup {Value("tuple", << >>, l, 0) : l \in {<< >>, <<<<"a">>>>}}
    \cup {Value(type, << >>, << >>, i) : type \in {"int", "bool"}, i \in {0, 1}}

(* `not metrics` *)
Falsy(metrics) ==
    CASE metrics.type = "str" -> metrics.str = << >>
      [] metrics.type \in {"list", "tuple"} -> metrics.items = << >>
      [] metrics.type \in {"int", "bool"} -> metrics.num = 0
      [] OTHER -> TRUE

(* str.lower() and str.strip() *)
lower(str) == [i \in 1..Len(str) |-> IF str[i] = "A" THEN "a" ELSE str[i]]

RECURSIVE strip(_)
strip(str) ==
    IF str = << >> THEN str
    ELSE IF str[1] = " " THEN strip(Tail(str))
    ELSE IF str[Len(str)] = " " THEN strip(SubSeq(str, 1, Len(str) - 1))
    ELSE str

(* str.split(",") *)
RECURSIVE split(_)
split(str) ==
    IF \A i \in 1..Len(str) : str[i] # ","
    THEN <<str>>
    ELSE LET i == CHOOSE j \in 1..Len(str) :
                     str[j] = "," /\ \A k \in 1..(j - 1) : str[k] # ","
         IN  <<SubSeq(str, 1, i - 1)>> \o split(SubSeq(str, i + 1, Len(str)))

(* Trainer._process_metrics: the set returned and the exception raised *)
_process_metrics(metrics) ==
    IF Falsy(metrics) THEN [ret |-> Some({}), raised |-> ""]
    ELSE IF metrics.type \notin {"str", "list"}
    THEN [ret |-> None, raised |-> "TypeError"]
    ELSE
    LET str == metrics.str
        inner == IF str[1] = "[" /\ str[Len(str)] = "]"
                 THEN SubSeq(str, 2, Len(str) - 1) ELSE str
        names == IF metrics.type = "str" THEN split(inner) ELSE metrics.items
        cleaned == {lower(strip(names[i])) : i \in 1..Len(names)}
    IN  [ret |-> Some(cleaned \ (cleaned \ evaluator_list)), raised |-> ""]

InitMetrics ==
    /\ config = [eval_epoch |-> None, eval_step |-> None,
                 stopping_step |-> None, epochs |-> 0]
    /\ train_data = 1
    /\ valid_data = FALSE
    /\ self = Trainer(config)
    /\ files = [p \in {} |-> None]
    /\ links = [p \in {} |-> None]
    /\ save_log = << >>
    /\ pc = "idle"
    /\ it = 0
    /\ batch = 0
    /\ optimizer_steps = 0
    /\ valid_ret = None
    /\ fit_result = None
    /\ error = ""
    /\ call \in {[op |-> "config", metrics |-> m] : m \in MetricConfigs}
    /\ tracker = EpochTracker(0, FALSE, TRUE)
    /\ dashboard = << >>
    /\ ranks = << >>

(* self._process_metrics(...) in Trainer.__init__ *)
ProcessMetrics ==
    /\ call.op = "config"
    /\ LET r == _process_metrics(call.metrics)
       IN  /\ call' = [op |-> "_process_metrics", metrics |-> call.metrics,
                       ret |-> r.ret]
           /\ error' = r.raised
    /\ UNCHANGED <<main, tracker, dashboard>>

NextMetrics == ProcessMetrics

SpecMetrics == InitMetrics /\ [][NextMetrics]_vars

---------------------------------------------------------------------------
(* Multi-process mode (config['DDP']): every rank runs the same fit on its *)
(* shard of the train and validation data, with validation after every     *)
(* epoch. The ranks share the checkpoint directory and meet in             *)
(* torch.distributed.all_reduce, which returns on a rank once every rank   *)
(* of the group has entered it.                                            *)

Ranks == 0..(MaxRanks - 1)

DDPConfigs ==
    {cfg \in Configs :
       /\ cfg.eval_epoch = Some(1)
       /\ cfg.eval_step = None
       /\ cfg.stopping_step \in {None, Some(1)}
       /\ cfg.epochs \in 1..2}

DDPLosses == {Float(0), Float(1)}
DDPScores == {8, 9}

(* The process of one rank when fit is called: its position, its Trainer,  *)
(* its loop counters, the batches its shards yield, the tracker of the     *)
(* pass it is in, the reads at which it entered the collective, and the    *)
(* torch.save and os.symlink calls it made                                 *)
Process(cfg, train_shard, valid_shard) ==
    [pc |-> "for", then |-> "", self |-> Trainer(cfg), it |-> 0, batch |-> 0,
     train_shard |-> train_shard, valid_shard |-> valid_shard,
     tracker |-> EpochTracker(0, TRUE, TRUE),
     entered |-> << >>, saved |-> 0, linked |-> 0, error |-> ""]

(* The reads of EpochTracker.loss in one epoch of fit, in program order:   *)
(* fit line 622, info of the train tracker, info of the valid tracker,     *)
(* as_dict of the valid tracker; and the position after each               *)
ReadPositions == {"train_loss", "train_info", "valid_info", "as_dict"}

NextPosition(pos) ==
    CASE pos = "train_loss" -> "train_info"
      [] pos = "train_info" -> "valid_epoch"
      [] pos = "valid_info" -> "as_dict"
      [] pos = "as_dict" -> "save"

(* The process after the read at pos returned with tracker tr *)
ReadDone(p, pos, tr) ==
    [p EXCEPT !.tracker = tr,
              !.pc = NextPosition(pos),
              !.self.train_loss_list =
                  IF pos = "train_loss" THEN Append(@, p.self.epoch_idx)
                  ELSE @]

(* all_reduce with ReduceOp.SUM over the ranks 0..n, then the division by  *)
(* the world size                                                          *)
RECURSIVE all_reduce(_, _)
all_reduce(procs, n) ==
    IF n = 0 THEN _calc_loss(procs[0].tracker)
    ELSE QAdd(all_reduce(procs, n - 1), _calc_loss(procs[n].tracker))

Reduced(procs) ==
    [all_reduce(procs, MaxRanks - 1) EXCEPT !.den = @ * MaxRanks]

InitDDP ==
    /\ config \in DDPConfigs
    /\ train_data = MaxShard
    /\ valid_data = TRUE
    /\ self = Trainer(config)
    /\ files = [p \in {} |-> None]
    /\ links = [p \in {} |-> None]
    /\ save_log = << >>
    /\ pc = "idle"
    /\ it = 0
    /\ batch = 0
    /\ optimizer_steps = 0
    /\ valid_ret = None
    /\ fit_result = None
    /\ error = ""
    /\ call = [op |-> "none"]
    /\ tracker = EpochTracker(0, TRUE, TRUE)
    /\ dashboard = << >>
    /\ \E train_shard \in [Ranks -> 0..MaxShard],
          valid_shard \in [Ranks -> 0..MaxShard] :
         ranks = [r \in Ranks |->
                    Process(config, train_shard[r], valid_shard[r])]

local == <<config, train_data, valid_data, self, pc, it, batch,
           optimizer_steps, valid_ret, fit_result, error, call, tracker,
           dashboard>>

(* The head of fit's loop on one rank, and fit's return *)
RankForEpoch ==
    /\ \E r \in Ranks :
         LET p == ranks[r]
         IN  /\ p.pc = "for"
             /\ ranks' = [ranks EXCEPT ![r] =
                  IF p.it < p.self.epochs
                  THEN [p EXCEPT !.self.epoch_idx = p.it,
                                 !.it = p.it + 1,
                                 !.batch = 0,
                                 !.tracker = EpochTracker(p.it, TRUE, TRUE),
                                 !.pc = IF p.train_shard = 0
                                        THEN "train_loss" ELSE "train"]
                  ELSE IF best_result(p.self) = None
                  THEN [p EXCEPT !.pc = "raised", !.error = "IndexError"]
                  ELSE [p EXCEPT !.pc = "done"]]
    /\ UNCHANGED <<local, files, links, save_log>>

(* One batch of the train loop or of the validation loop on one rank *)
RankBatch ==
    /\ \E r \in Ranks, batch_loss \in DDPLosses :
         LET p == ranks[r]
             a == append_loss(p.tracker, << >>, batch_loss)
             shard == IF p.pc = "train" THEN p.train_shard ELSE p.valid_shard
         IN  /\ p.pc \in {"train", "valid"}
             /\ ranks' = [ranks EXCEPT ![r] =
                  [p EXCEPT !.tracker = a.tracker,
                            !.batch = p.batch + 1,
                            !.self = IF p.pc = "train" THEN Step(@) ELSE @,
                            !.pc = IF p.batch + 1 < shard THEN p.pc
                                   ELSE IF p.pc = "train" THEN "train_loss"
                                   ELSE "valid_info"]]
    /\ UNCHANGED <<local, files, links, save_log>>

(* One read of EpochTracker.loss on one rank: served from the cache, or    *)
(* math.inf without the collective when nothing was appended, or the rank  *)
(* enters all_reduce                                                       *)
RankReadLoss ==
    /\ \E r \in Ranks :
         LET p == ranks[r]
         IN  /\ p.pc \in ReadPositions
             /\ ranks' = [ranks EXCEPT ![r] =
                  IF Truthy(p.tracker._loss)
                  THEN ReadDone(p, p.pc, p.tracker)
                  ELSE IF p.tracker._accumulate_step = 0
                  THEN ReadDone(p, p.pc, [p.tracker EXCEPT !._loss = Some(Inf)])
                  ELSE [p EXCEPT !.pc = "all_reduce",
                                 !.then = p.pc,
                                 !.entered = Append(@, p.pc)]]
    /\ UNCHANGED <<local, files, links, save_log>>

(* Every rank of the group is in all_reduce: each gets the reduced loss    *)
AllReduce ==
    /\ \A r \in Ranks : ranks[r].pc = "all_reduce"
    /\ ranks' = [r \in Ranks |->
                   ReadDone(ranks[r], ranks[r].then,
                            [ranks[r].tracker EXCEPT
                               !._loss = Some(Reduced(ranks))])]
    /\ UNCHANGED <<local, files, links, save_log>>

(* _valid_epoch begins on one rank: the tracker of the validation pass *)
RankValidEpoch ==
    /\ \E r \in Ranks :
         LET p == ranks[r]
         IN  /\ p.pc = "valid_epoch"
             /\ ranks' = [ranks EXCEPT ![r] =
                  [p EXCEPT !.tracker = EpochTracker(p.self.epoch_idx, TRUE,
                                                     FALSE),
                            !.batch = 0,
                            !.pc = IF p.valid_shard = 0
                                   THEN "valid_info" ELSE "valid"]]
    /\ UNCHANGED <<local, files, links, save_log>>

(* The rest of _valid on one rank: the result is recorded, early stopping  *)
(* is checked and save_checkpoint is called. On rank 0 save_checkpoint     *)
(* reads _state_dict["state_dict"], a key that the model's state_dict()    *)
(* has or has not.                                                         *)
RankSave ==
    /\ \E r \in Ranks, score \in DDPScores, has_key \in BOOLEAN :
         LET p == ranks[r]
             v == _valid(p.self, Disk, p.self.epoch_idx, "epoch", score)
             stopped == p.self.stopped /\ v.ret
         IN  /\ p.pc = "save"
             /\ r # 0 => has_key
             /\ IF r = 0 /\ ~has_key
                THEN /\ ranks' = [ranks EXCEPT ![r] =
                           [p EXCEPT !.self = v.self,
                                     !.pc = "raised",
                                     !.error = "KeyError"]]
                     /\ UNCHANGED <<files, links, save_log>>
                ELSE /\ files' = v.disk.files
                     /\ links' = v.disk.links
                     /\ save_log' = v.disk.log
                     /\ ranks' = [ranks EXCEPT ![r] =
                           [p EXCEPT
                              !.self = [v.self EXCEPT !.stopped = stopped],
                              !.saved = @ + Len(v.disk.log) - Len(save_log),
                              !.linked = IF v.disk.links # links
                                         THEN @ + 1 ELSE @,
                              !.error = v.disk.raised,
                              !.pc = IF v.disk.raised # "" THEN "raised"
                                     ELSE IF stopped THEN "done"
                                     ELSE "for"]]
    /\ UNCHANGED local

NextDDP ==
    \/ RankForEpoch
    \/ RankBatch
    \/ RankReadLoss
    \/ AllReduce
    \/ RankValidEpoch
    \/ RankSave

SpecDDP == InitDDP /\ [][NextDDP]_vars

---------------------------------------------------------------------------
(* Properties.                                                             *)

Last(seq) == seq[Len(seq)]

(* A validation pass ran in the step: _valid appended a summary. *)
PassRan == Len(self'.result_list) = Len(self.result_list) + 1

(* The position of the _valid call the step makes, "none" if it makes none. *)
Position ==
    IF ~valid_data THEN "none"
    ELSE IF pc = "train" THEN "step"
    ELSE IF pc = "epoch_end" THEN "epoch"
    ELSE "none"

(* fit has reached its return statement. *)
FitEnded == pc = "done" \/ (pc = "raised" /\ error = "IndexError")

(* The early-stopping check of the latest validation pass signalled stop:  *)
(* stopping_count changes only in _early_stopping, which signals stop      *)
(* exactly when it leaves stopping_count above stopping_step.              *)
StopSignalled ==
    /\ Bool(self.stopping_step)
    /\ Len(self.result_list) > 0
    /\ self.stopping_count > self.stopping_step[1]

(* C1: once the early-stopping check of a validation pass has signalled    *)
(* stop, no further batch is trained, no later epoch is started and no     *)
(* later validation pass runs.                                             *)
C1_HaltsAfterStopSignal ==
    [][StopSignalled =>
          /\ optimizer_steps' = optimizer_steps
          /\ self'.epoch_idx = self.epoch_idx
          /\ self'.result_list = self.result_list]_vars

C3_Scenario ==
    /\ config.epochs = 3
    /\ config.eval_epoch = Some(1)
    /\ config.stopping_step = Some(1)
    /\ valid_data
    /\ self.start_epoch = 0
    /\ Len(self.result_list) <= 3
    /\ \A i \in 1..Len(self.result_list) :
           self.result_list[i].score = <<10, 8, 9>>[i]

(* C3: in a fresh run with epochs = 3, eval_epoch = 1, stopping_step = 1   *)
(* and validation scores 0.5, 0.4, 0.45: after epoch 0 best_epoch is 0 and *)
(* best_valid_score 0.5; after epoch 1 stopping_count is 1 and the session *)
(* is not stopped; after epoch 2 stopping_count is 2 and the session is    *)
(* stopped by early stopping; fit returns the epoch-0 summary with         *)
(* best_epoch 0.                                                           *)
C3_EndToEnd ==
    C3_Scenario =>
        /\ Len(self.result_list) = 1 =>
              self.best_epoch = 0 /\ self.best_valid_score = 10
        /\ Len(self.result_list) = 2 =>
              self.stopping_count = 1 /\ ~self.stopped
        /\ Len(self.result_list) = 3 =>
              self.stopping_count = 2 /\ self.stopped
        /\ pc # "raised"
        /\ pc = "done" =>
              self.best_epoch = 0 /\ fit_result = Some(self.result_list[1])

(* C4: once a validation pass has completed, best_epoch is an index into   *)
(* result_list and the summary at it has the score best_valid_score.       *)
C4_BestEpochIndexesBest ==
    Len(self.result_list) >= 1 =>
        /\ 0 <= self.best_epoch
        /\ self.best_epoch < Len(self.result_list)
        /\ self.result_list[self.best_epoch + 1].score = self.best_valid_score

(* C5: fit returns a summary on every call, and when validation passes     *)
(* ran it is the summary of the pass with the best score of the session.   *)
C5_FitReturnsBestSummary ==
    FitEnded =>
        /\ pc = "done"
        /\ fit_result # None
        /\ \A i \in 1..Len(self.result_list) :
               self.result_list[i].score <= fit_result[1].score
        /\ Len(self.result_list) > 0 =>
               \E i \in 1..Len(self.result_list) :
                   self.result_list[i] = fit_result[1]

(* C6: best_valid_score is -infinity until resume or the first validation  *)
(* pass, and no step of fit decreases it.                                  *)
C6_BestScoreMonotone ==
    /\ [](Len(self.result_list) = 0 /\ self.start_epoch = 0 =>
              self.best_valid_score = NegInf)
    /\ [][pc # "idle" =>
              self'.best_valid_score >= self.best_valid_score]_vars

C6_Witness ==
    /\ Len(self.result_list) >= 2
    /\ Last(self.result_list).score < self.best_valid_score
    /\ self.result_list[1].score = self.best_valid_score

(* C7: with stopping_step zero or unset no _valid call returns stop, the   *)
(* session is never stopped, and fit has run every epoch of                *)
(* [start_epoch, epochs) when it reaches its return.                       *)
C7_DisabledNeverStops ==
    ~Bool(config.stopping_step) =>
        /\ valid_ret # Some(TRUE)
        /\ ~self.stopped
        /\ (pc = "return" \/ FitEnded) =>
              self.train_loss_list =
                  [i \in 1..(IF self.epochs > self.start_epoch
                             THEN self.epochs - self.start_epoch ELSE 0) |->
                      self.start_epoch + i - 1]

C7_Witness ==
    /\ config.stopping_step = Some(0)
    /\ pc = "done"
    /\ Len(self.result_list) = 3
    /\ Len(self.train_loss_list) = 3
    /\ self.result_list[1].score > self.result_list[2].score
    /\ self.result_list[2].score > self.result_list[3].score

Positive(o) == o # None /\ o[1] > 0

(* C8: the resolved cadence: both inputs > 0 give mode 'epoch' with        *)
(* interval eval_epoch; both <= 0 or unset give 'epoch' with interval 1;   *)
(* otherwise the one input that is > 0 gives the mode and the interval.    *)
C8_EvalModeResolution ==
    LET ee == config.eval_epoch
        es == config.eval_step
    IN  /\ self.eval_mode \in {"epoch", "step"}
        /\ (Positive(ee) /\ Positive(es)) =>
              self.eval_mode = "epoch" /\ self.eval_interval = ee[1]
        /\ (~Positive(ee) /\ ~Positive(es)) =>
              self.eval_mode = "epoch" /\ self.eval_interval = 1
        /\ (Positive(ee) /\ ~Positive(es)) =>
              self.eval_mode = "epoch" /\ self.eval_interval = ee[1]
        /\ (~Positive(ee) /\ Positive(es)) =>
              self.eval_mode = "step" /\ self.eval_interval = es[1]

C8_Witness ==
    /\ config.eval_epoch = Some(2)
    /\ config.eval_step = Some(1)
    /\ self.eval_mode = "epoch"
    /\ self.eval_interval = 2
    /\ Len(self.result_list) = 1
    /\ self._eval_count = 2

(* C9: a _valid call runs a validation pass iff its position is the        *)
(* resolved mode and the count of calls at that position, this one         *)
(* included, is a multiple of the interval; a call at the other position   *)
(* leaves the counter and result_list unchanged. With eval_epoch = 2,      *)
(* eval_step = 0 the passes are those of the 2nd, 4th, ... epoch-position  *)
(* calls; with both 0 every epoch-position call runs one.                  *)
C9_Cadence ==
    /\ [][ /\ Position = self.eval_mode =>
                /\ self'._eval_count = self._eval_count + 1
                /\ PassRan <=> self'._eval_count % self.eval_interval = 0
                /\ PassRan \/ self'.result_list = self.result_list
           /\ Position # self.eval_mode =>
                /\ self'._eval_count = self._eval_count
                /\ self'.result_list = self.result_list ]_vars
    /\ []( (valid_data /\ config.eval_step \in {None, Some(0)}) =>
             /\ config.eval_epoch = Some(2) =>
                   /\ self._eval_count = Len(self.train_loss_list)
                   /\ Len(self.result_list) = self._eval_count \div 2
             /\ config.eval_epoch = Some(0) =>
                   Len(self.result_list) = Len(self.train_loss_list) )

C9_Witness ==
    /\ config.eval_epoch = Some(2)
    /\ config.eval_step = Some(0)
    /\ valid_data
    /\ Len(self.train_loss_list) = 3
    /\ Len(self.result_list) = 1
    /\ self.result_list[1].epoch_idx = 1

(* C10: every validation pass appends its summary to result_list and, in   *)
(* the same _valid call, makes exactly one torch.save; the record written  *)
(* holds the epoch_idx, stopping_count and best_valid_score the session    *)
(* has after the early-stopping check and the last summary of result_list, *)
(* and it is the content of the file written. No other step saves.         *)
C10_SaveAfterEveryPass ==
    /\ [](Len(save_log) = Len(self.result_list))
    /\ [][ /\ PassRan =>
                /\ Len(save_log') = Len(save_log) + 1
                /\ Last(save_log').checkpoint.stopping_count =
                       self'.stopping_count
                /\ Last(save_log').checkpoint.best_valid_score =
                       self'.best_valid_score
                /\ Last(save_log').checkpoint.epoch = self'.epoch_idx
                /\ Last(save_log').checkpoint.summary =
                       Last(self'.result_list)
                /\ Last(save_log').path \in DOMAIN files'
                /\ files'[Last(save_log').path] = Last(save_log').checkpoint
           /\ ~PassRan => save_log' = save_log /\ files' = files ]_vars

C10_Witness ==
    /\ Len(save_log) = 2
    /\ Len(self.result_list) = 2
    /\ Last(save_log).checkpoint.stopping_count = 1
    /\ Last(save_log).checkpoint.best_valid_score > Last(self.result_list).score
    /\ Last(save_log).checkpoint.summary = Last(self.result_list)

---------------------------------------------------------------------------
(* Checkpoint and evaluation properties, under SpecApi.                    *)

(* C11: every checkpoint that save_checkpoint wrote can be resumed from:   *)
(* resume_checkpoint succeeds and restores stopping_count and              *)
(* best_valid_score as saved, with start_epoch the saved epoch plus one.   *)
C11_CheckpointRoundTrip ==
    [][(call.op = "none" /\ call'.op = "resume_checkpoint" /\ call'.restart)
         => /\ error' = ""
            /\ self'.stopping_count = call'.checkpoint[1].stopping_count
            /\ self'.best_valid_score = call'.checkpoint[1].best_valid_score
            /\ self'.start_epoch = call'.checkpoint[1].epoch + 1]_vars

(* C12: when a checkpoint is written while epoch_idx = best_epoch, the     *)
(* directory then holds exactly one best pointer, at <filename>.pth, and   *)
(* it refers to the file just written; when epoch_idx differs from         *)
(* best_epoch the pointers are as before.                                  *)
C12_BestPointer ==
    [][Len(save_log') > Len(save_log)
         => IF self'.best_epoch = self'.epoch_idx
            THEN links' = [p \in {BestPointer} |-> Last(save_log').path]
            ELSE links' = links]_vars

C12_Witness ==
    /\ Bool(self.stopping_step)
    /\ Len(save_log) >= 2
    /\ self.best_epoch = self.epoch_idx
    /\ DOMAIN links = {BestPointer}
    /\ links[BestPointer] = Last(save_log).path
    /\ \E i \in 1..(Len(save_log) - 1) :
         /\ save_log[i].checkpoint.stopping_count = 0
         /\ save_log[i].path # Last(save_log).path

(* C13: after a fit that left a best pointer, evaluate with                *)
(* load_best_model=True and no model_file loads the parameters of the      *)
(* checkpoint the best pointer refers to, and then evaluates.              *)
C13_EvaluateLoadsBest ==
    [][(/\ call.op = "none" /\ call'.op = "evaluate"
        /\ pc = "done"
        /\ BestPointer \in DOMAIN links
        /\ call'.load_best_model
        /\ call'.model_file = None)
         => /\ call'.loaded = Some(BestPointer)
            /\ self'.model = files[links[BestPointer]].state_dict
            /\ call'.generated]_vars

(* C14: save_checkpoint writes to <filename><tag>.pth, the tag being       *)
(* _epoch-<epoch_idx> by default; when a file is already there and         *)
(* overwrite is False, the write goes to a timestamped path and the file   *)
(* that was there keeps its content; otherwise the destination holds the   *)
(* new checkpoint.                                                         *)
C14_Destination ==
    [][(/\ call.op = "none" /\ call'.op = "save_checkpoint"
        /\ Len(self.result_list) > 0)
         => LET tag == IF call'.tag = None THEN Some(self.epoch_idx)
                       ELSE call'.tag
                dest == Path(tag, ".pth")
            IN  IF dest \in DOMAIN files /\ ~call'.overwrite
                THEN /\ Last(save_log').path = [dest EXCEPT !.time = TRUE]
                     /\ files'[dest] = files[dest]
                ELSE /\ Last(save_log').path = dest
                     /\ files'[dest] = Last(save_log').checkpoint]_vars

(* C15: save_checkpoint called while result_list is empty does nothing:    *)
(* no file is written, the pointers and the Trainer are as before, and     *)
(* nothing is raised.                                                      *)
C15_SaveBeforeValidationNoOp ==
    [][(/\ call.op = "none" /\ call'.op = "save_checkpoint"
        /\ Len(self.result_list) = 0)
         => /\ UNCHANGED <<files, links, save_log, self>>
            /\ error' = ""]_vars

C15_Witness ==
    /\ call.op = "save_checkpoint"
    /\ Len(self.result_list) = 0
    /\ pc = "end"
    /\ error = ""

(* C16: after resume_checkpoint succeeded on a record with epoch = e, fit  *)
(* trains epoch e + 1 first, then each next epoch in turn, and its loop    *)
(* ends after epoch epochs - 1; no epoch <= e is trained.                  *)
C16_ResumedEpochs ==
    [][(/\ call.op = "resume_checkpoint" /\ call.checkpoint # None
        /\ call' = call)
         => LET e == call.checkpoint[1].epoch
            IN  /\ self'.epoch_idx # self.epoch_idx
                     => self'.epoch_idx = IF self.epoch_idx = -1 THEN e + 1
                                          ELSE self.epoch_idx + 1
                /\ (pc = "for" /\ pc' = "return")
                     => self.epoch_idx = IF e + 1 < self.epochs
                                         THEN self.epochs - 1 ELSE -1]_vars

C16_Witness ==
    /\ call.op = "resume_checkpoint"
    /\ call.checkpoint # None
    /\ call.checkpoint[1].epoch = 0
    /\ pc = "done"
    /\ self.start_epoch = 1
    /\ self.train_loss_list = <<1, 2>>

(* C17: resume_checkpoint on a path where no file is returns without       *)
(* raising and leaves the Trainer as it was (start_epoch 0,                *)
(* stopping_count, best_valid_score, parameters, optimizer state), and     *)
(* the fit that follows begins with epoch 0.                               *)
C17_MissingResumeFile ==
    [][/\ (/\ call.op = "none" /\ call'.op = "resume_checkpoint"
           /\ call'.checkpoint = None)
            => (self' = self /\ self.start_epoch = 0 /\ error' = ""
                /\ pc' = "idle")
       /\ (/\ call.op = "resume_checkpoint" /\ call.checkpoint = None
           /\ self.epoch_idx = -1 /\ self'.epoch_idx # -1)
            => self'.epoch_idx = 0]_vars

C17_Witness ==
    /\ call.op = "resume_checkpoint"
    /\ call.checkpoint = None
    /\ pc = "train"
    /\ self.epoch_idx = 0
    /\ error = ""

(* C18: evaluate with load_best_model=True, when the checkpoint file it    *)
(* looks for is missing, returns None without raising, generates no text,  *)
(* does not run the evaluator and leaves the parameters as they were.      *)
C18_MissingCheckpointEvaluate ==
    [][(/\ call.op = "none" /\ call'.op = "evaluate"
        /\ call'.load_best_model
        /\ ~Exists(Disk, IF call'.model_file = None
                         THEN saved_model_filename
                         ELSE call'.model_file[1]))
         => /\ call'.ret = None
            /\ error' = ""
            /\ ~call'.generated
            /\ ~call'.evaluated
            /\ self'.model = self.model]_vars

C18_Witness ==
    /\ call.op = "evaluate"
    /\ call.load_best_model
    /\ call.model_file = Some(Path(Some(MaxEpochs), ".pth"))
    /\ call.ret = None
    /\ ~call.generated
    /\ Len(save_log) > 0
    /\ pc = "end"

---------------------------------------------------------------------------
(* EpochTracker properties, under SpecTracker.                             *)

RECURSIVE SumValues(_)
SumValues(log) ==
    IF log = << >> THEN 0 ELSE log[1].value.v + SumValues(Tail(log))

(* C19: for every sequence of losses l1..ln (n >= 1, none NaN) appended    *)
(* to a single-process tracker, the loss that a read computes is           *)
(* (l1 + ... + ln) / n. The appended losses are those the dashboard        *)
(* received.                                                               *)
C19_LossIsMean ==
    (call.op = "loss" /\ ~call.cached /\ Len(dashboard) >= 1 /\ ~tracker._DDP)
        => call.ret = FDiv(Float(SumValues(dashboard)), Len(dashboard))

C19_Witness ==
    /\ call.op = "loss"
    /\ ~call.cached
    /\ Len(dashboard) = 3
    /\ call.ret = FDiv(Float(4), 3)

(* C20: append_loss with a NaN raises ValueError and changes nothing: the  *)
(* running sum, the step counter, the cached loss and the dashboard are    *)
(* as before the call, wherever in a sequence of appends it happens.       *)
C20_NaNAppendMutatesNothing ==
    [][(call'.op = "append_loss" /\ isnan(call'.loss))
          => /\ error' = "ValueError"
             /\ tracker' = tracker
             /\ dashboard' = dashboard]_vars

C20_Witness ==
    /\ call.op = "append_loss"
    /\ isnan(call.loss)
    /\ error = "ValueError"
    /\ tracker._accumulate_step = 2
    /\ tracker._loss # None

---------------------------------------------------------------------------
(* Early-stopping state and the summary history, under Spec.               *)

(* C29: stopping_count counts the validation passes since the last strict  *)
(* improvement of best_valid_score, on top of the value restored on        *)
(* resume: a pass whose score is strictly greater than best_valid_score    *)
(* sets it to 0 and sets best_valid_score and best_epoch to that pass's    *)
(* score and epoch, every other pass adds 1 and leaves the best as it is,  *)
(* and nothing else in fit changes it.                                     *)
C29_StoppingCount ==
    [][IF PassRan
       THEN IF Last(self'.result_list).score > self.best_valid_score
            THEN /\ self'.stopping_count = 0
                 /\ self'.best_valid_score = Last(self'.result_list).score
                 /\ self'.best_epoch = self'.epoch_idx
            ELSE /\ self'.stopping_count = self.stopping_count + 1
                 /\ self'.best_valid_score = self.best_valid_score
                 /\ self'.best_epoch = self.best_epoch
       ELSE pc # "idle" => self'.stopping_count = self.stopping_count]_vars

(* C30: result_list is append-only: a step leaves it as it is or adds one  *)
(* entry at its end, the entries before it unchanged; it adds one exactly  *)
(* when a validation pass ran (the eval counter reached a multiple of the  *)
(* interval), and the entry added is the summary of the current epoch.     *)
C30_HistoryAppendOnly ==
    [][/\ Len(self'.result_list) \in
            {Len(self.result_list), Len(self.result_list) + 1}
       /\ SubSeq(self'.result_list, 1, Len(self.result_list)) = self.result_list
       /\ PassRan <=> /\ self.eval_interval > 0
                      /\ self'._eval_count = self._eval_count + 1
                      /\ self'._eval_count % self.eval_interval = 0
       /\ PassRan => Last(self'.result_list).epoch_idx = self'.epoch_idx]_vars

C30_Witness ==
    /\ Len(self.result_list) = 3
    /\ self.result_list[1].score = 20
    /\ self.result_list[2].score = 8
    /\ self.result_list[3].score = 9
    /\ self.result_list[1].epoch_idx < self.result_list[3].epoch_idx

---------------------------------------------------------------------------
(* EpochTracker.score and the loss cache, under SpecScore and SpecTracker. *)

(* Equality of two quotients with positive denominators *)
QEq(a, b) == ~a.nan /\ ~b.nan /\ a.num * b.den = b.num * a.den

AllScalarFloats(results) ==
    /\ DOMAIN results # {}
    /\ \A m \in DOMAIN results : results[m].kind = "float"

RECURSIVE SumScalars(_, _)
SumScalars(results, names) ==
    IF names = {} THEN 0
    ELSE LET m == CHOOSE n \in names : TRUE
         IN  results[m].v + SumScalars(results, names \ {m})

(* The float members of a result, and the metrics that have some *)
NumericMembers(result) ==
    IF result.kind = "float" THEN <<result.v>>
    ELSE IF result.kind = "other" THEN << >>
    ELSE [i \in 1..Len(SelectSeq(result.members, LAMBDA x : x.float)) |->
             SelectSeq(result.members, LAMBDA x : x.float)[i].v]

RECURSIVE SumInts(_)
SumInts(seq) == IF seq = << >> THEN 0 ELSE seq[1] + SumInts(Tail(seq))

RECURSIVE ExpectedScore(_, _)
ExpectedScore(results, names) ==
    IF names = {} THEN [nan |-> FALSE, num |-> 0, den |-> 1]
    ELSE LET m == CHOOSE n \in names : NumericMembers(results[n]) # << >>
             rest == ExpectedScore(results, names \ {m})
             ms == NumericMembers(results[m])
         IN  [nan |-> FALSE,
              num |-> rest.num * Len(ms) + SumInts(ms) * rest.den,
              den |-> rest.den * Len(ms)]

(* The losses that append_loss sent to the dashboard *)
LossLog == SelectSeq(dashboard, LAMBDA e : e.name = "loss")

(* C22, as stated: in validation mode, when every metric result is a       *)
(* scalar float, score equals sum(v) / len(results), for every number of   *)
(* metrics >= 1.                                                           *)
C22_ScoreIsMeanOfScalars ==
    (/\ call.op = "score"
     /\ tracker.mode_tag = "valid"
     /\ AllScalarFloats(tracker.metrics_results))
        => QEq(call.ret[1],
               [nan |-> FALSE,
                num |-> SumScalars(tracker.metrics_results,
                                   DOMAIN tracker.metrics_results),
                den |-> Cardinality(DOMAIN tracker.metrics_results)])

(* C22, amended: in validation mode, when every metric result is a scalar  *)
(* float, score equals sum(v), for every number of metrics >= 1.           *)
C22_ScoreIsSumOfScalars ==
    (/\ call.op = "score"
     /\ tracker.mode_tag = "valid"
     /\ AllScalarFloats(tracker.metrics_results))
        => QEq(call.ret[1],
               [nan |-> FALSE,
                num |-> SumScalars(tracker.metrics_results,
                                   DOMAIN tracker.metrics_results),
                den |-> 1])

C22_Witness ==
    /\ call.op = "score"
    /\ tracker.mode_tag = "valid"
    /\ DOMAIN tracker.metrics_results = MetricNames
    /\ AllScalarFloats(tracker.metrics_results)
    /\ tracker.metrics_results["bleu"].v = 1
    /\ tracker.metrics_results["rouge"].v = 2
    /\ QEq(call.ret[1], [nan |-> FALSE, num |-> 3, den |-> 1])

(* C27: in validation mode score is the sum, over the metrics that have a  *)
(* float member, of the average of the metric's float members (the scalar  *)
(* itself, or the float values of a dict or collection); when no metric    *)
(* has a float member, and when there is no metric, score is the negated   *)
(* mean loss.                                                              *)
C27_ScoreIsSumOfAverages ==
    (call.op = "score" /\ tracker.mode_tag = "valid")
        => LET results == tracker.metrics_results
               counted == {m \in DOMAIN results :
                              NumericMembers(results[m]) # << >>}
           IN  IF counted # {}
               THEN QEq(call.ret[1], ExpectedScore(results, counted))
               ELSE call.ret[1] =
                       IF LossLog = << >>
                       THEN [nan |-> FALSE, num |-> -1, den |-> 0]
                       ELSE [nan |-> FALSE,
                             num |-> -SumValues(LossLog),
                             den |-> Len(LossLog)]

C27_Witness ==
    /\ call.op = "score"
    /\ tracker.mode_tag = "valid"
    /\ DOMAIN tracker.metrics_results = MetricNames
    /\ tracker.metrics_results["bleu"] =
          [kind |-> "dict", members |-> <<Member(2), NonFloat>>]
    /\ tracker.metrics_results["rouge"] =
          [kind |-> "collection", members |-> <<Member(1), Member(2)>>]
    /\ QEq(call.ret[1], [nan |-> FALSE, num |-> 7, den |-> 2])

(* C28: loss is computed at most once per tracker: a read made after the   *)
(* loss has been computed, whatever its value, takes the cached value and  *)
(* does not run the mean computation again.                                *)
C28_LossComputedOnce ==
    [][(call'.op = "loss" /\ tracker._loss # None) => call'.cached]_vars

---------------------------------------------------------------------------
(* _process_metrics, under SpecMetrics.                                    *)

(* The string that lists the names of a list, separated by commas *)
RECURSIVE Join(_)
Join(l) ==
    IF l = << >> THEN << >>
    ELSE IF Len(l) = 1 THEN l[1]
    ELSE l[1] \o <<",">> \o Join(Tail(l))

(* C26: _process_metrics returns a subset of the supported names: the      *)
(* configured names (stripped, lower-cased) that are supported, all of     *)
(* them; an unset (None) or empty value gives the empty set; a list gives  *)
(* the set that the string of its names gives; any other value that is     *)
(* neither a string nor a list raises TypeError.                           *)
C26_ProcessMetrics ==
    call.op = "_process_metrics" =>
        LET m == call.metrics
        IN  /\ call.ret # None => call.ret[1] \subseteq evaluator_list
            /\ (m.type = "NoneType" \/ (m.str = << >> /\ m.items = << >>
                                         /\ m.type \in {"str", "list", "tuple"}))
                  => call.ret = Some({})
            /\ (m.type = "list" /\ m.items # << >>)
                  => /\ call.ret =
                          Some({n \in evaluator_list :
                                  \E i \in 1..Len(m.items) :
                                      lower(strip(m.items[i])) = n})
                     /\ call.ret =
                          _process_metrics(Value("str", Join(m.items),
                                                 << >>, 0)).ret
            /\ (m.type \in {"int", "bool"} \/ (m.type = "tuple" /\ m.items # << >>))
                  => (call.ret = None /\ error = "TypeError")

---------------------------------------------------------------------------
(* A NaN loss in training, under SpecApi.                                 *)

(* C21: a NaN loss in a training batch leaves fit with ValueError at once: *)
(* the optimizer step of that batch is not executed, and no later batch,   *)
(* validation pass or checkpoint write of this fit happens.                *)
C21_NaNLossIsFatal ==
    [][/\ (pc = "train" /\ error' = "ValueError")
            => /\ pc' = "raised"
               /\ optimizer_steps' = optimizer_steps
               /\ self' = self
               /\ UNCHANGED <<batch, files, links, save_log, valid_ret,
                              fit_result>>
       /\ (pc = "raised" /\ error = "ValueError")
            => /\ pc' \in {"idle", "raised"}
               /\ call'.op = "resume_checkpoint"
               /\ UNCHANGED <<files, links, save_log>>]_vars

C21_Witness ==
    /\ pc = "raised"
    /\ error = "ValueError"
    /\ batch >= 1
    /\ optimizer_steps = self.epoch_idx * train_data + batch
    /\ save_log # << >>

---------------------------------------------------------------------------
(* Termination of fit, under LiveApi.                                      *)

(* C25: unless an exception ends it, fit leaves its loop: the epochs it    *)
(* begins have the indices start_epoch, start_epoch + 1, ... below epochs, *)
(* one more with every epoch, so at most epochs - start_epoch of them, and *)
(* the loop is left because the range is exhausted or because the stop     *)
(* flag is set.                                                            *)
C25_FitTerminates ==
    /\ [][(pc = "for" /\ pc' \in {"train", "epoch_end"})
             => /\ self'.epoch_idx =
                      self.start_epoch + Len(self.train_loss_list)
                /\ self'.epoch_idx < self.epochs]_vars
    /\ [](pc = "return"
             => /\ self.stopped
                   \/ self.start_epoch + Len(self.train_loss_list)
                         >= self.epochs
                /\ Len(self.train_loss_list) > 0
                     => Len(self.train_loss_list)
                           <= self.epochs - self.start_epoch)
    /\ (pc = "for") ~> (pc \in {"return", "raised"})

C25_Witness ==
    /\ pc = "return"
    /\ Len(self.train_loss_list) >= 2
    /\ self.start_epoch + Len(self.train_loss_list) = self.epochs

---------------------------------------------------------------------------
(* Multi-process mode, under SpecDDP.                                      *)

(* C23: only rank 0 writes checkpoint files and the best pointer: no other *)
(* rank has made a torch.save or an os.symlink call.                       *)
C23_OnlyRankZeroWrites ==
    \A r \in DOMAIN ranks :
        r # 0 => (ranks[r].saved = 0 /\ ranks[r].linked = 0)

(* C24: the collective is a barrier every rank reaches: ranks that are in  *)
(* it together entered it at the same read of the same epoch, and no rank  *)
(* is in it when another rank has returned from fit.                       *)
C24_CollectiveIsBarrier ==
    \A r, q \in DOMAIN ranks :
        ranks[r].pc = "all_reduce"
          => /\ ranks[q].pc # "done"
             /\ ranks[q].pc = "all_reduce"
                  => /\ ranks[q].then = ranks[r].then
                     /\ ranks[q].self.epoch_idx = ranks[r].self.epoch_idx

---------------------------------------------------------------------------
(* fit without validation data, under Spec.                                *)

(* C31: when fit is given no validation data, no validation pass runs:     *)
(* result_list stays empty, the eval counter stays 0, best_epoch stays -1, *)
(* no step of fit changes best_valid_score or stopping_count, and nothing  *)
(* is written under the checkpoint directory, whatever the cadence.        *)
C31_NoValidationData ==
    /\ [](~valid_data
             => /\ self.result_list = << >>
                /\ self._eval_count = 0
                /\ self.best_epoch = -1
                /\ valid_ret = None
                /\ save_log = << >>
                /\ DOMAIN files = {}
                /\ DOMAIN links = {})
    /\ [][(~valid_data /\ pc \in {"for", "train", "epoch_end", "return"})
             => /\ self'.best_valid_score = self.best_valid_score
                /\ self'.stopping_count = self.stopping_count]_vars

C31_Witness ==
    /\ ~valid_data
    /\ pc = "return"
    /\ self.eval_mode = "step"
    /\ optimizer_steps >= 2
    /\ Len(self.train_loss_list) >= 2

---------------------------------------------------------------------------
(* The best pointer during fit, under Spec.                                *)

(* C32: the file the best pointer refers to holds the checkpoint written   *)
(* by the validation pass that attained best_valid_score: its summary is   *)
(* that pass's result, and a later pass with a lower score neither         *)
(* replaces the content of that file nor re-points the pointer.            *)
C32_BestFileHoldsBest ==
    /\ [](BestPointer \in DOMAIN links
             => /\ links[BestPointer] \in DOMAIN files
                /\ files[links[BestPointer]].summary.score
                      = self.best_valid_score)
    /\ [][(/\ BestPointer \in DOMAIN links
           /\ Len(self'.result_list) > Len(self.result_list)
           /\ Last(self'.result_list).score < self.best_valid_score)
             => /\ BestPointer \in DOMAIN links'
                /\ links'[BestPointer] = links[BestPointer]
                /\ files'[links[BestPointer]] = files[links[BestPointer]]]_vars

(* C33: with early stopping disabled (stopping_step 0 or unset) the best   *)
(* is still tracked: after every validation pass best_valid_score is the   *)
(* maximum score seen so far, best_epoch is an epoch that attained it, and *)
(* a best pointer exists once a pass has improved on the best.             *)
C33_TrackedWhenDisabled ==
    (~Bool(self.stopping_step) /\ self.result_list # << >>)
        => /\ \A i \in 1..Len(self.result_list) :
                 self.result_list[i].score <= self.best_valid_score
           /\ (\E i \in 1..Len(self.result_list) :
                 /\ self.result_list[i].score = self.best_valid_score
                 /\ self.result_list[i].epoch_idx = self.best_epoch)
                \/ self.best_epoch = -1
           /\ self.best_epoch # -1 => BestPointer \in DOMAIN links

(* C34: a checkpoint record with epoch = e is written only after every     *)
(* batch of epoch e has been trained, so that a resume from it, which      *)
(* starts at epoch e + 1, skips no batch that was not trained.             *)
C34_CheckpointAfterWholeEpoch ==
    [][Len(save_log') > Len(save_log)
         => /\ Last(save_log').checkpoint.epoch = self'.epoch_idx
            /\ batch' = train_data]_vars

---------------------------------------------------------------------------
(* evaluate in a validation pass, under SpecApi.                           *)

(* C35: in a validation pass with valid_metrics not empty, the result that *)
(* goes into the validation tracker is computed, and it is computed by the *)
(* validation evaluator, not by the test evaluator.                        *)
C35_ValidationEvaluator ==
    [][(call.op = "none" /\ call'.op = "valid_evaluate"
        /\ call'.valid_metrics > 0)
         => /\ error' = ""
            /\ call'.evaluated
            /\ call'.evaluator = "valid_evaluator"]_vars

(* C38: a validation pass never loads a checkpoint: evaluate with          *)
(* is_valid=True loads no file whatever load_best_model is, and leaves the *)
(* parameters and the optimizer state as they were; after a validation     *)
(* pass of fit they are those the training loop had before it.             *)
C38_ValidationLoadsNothing ==
    /\ [][(call.op = "none" /\ call'.op \in {"evaluate_valid", "valid_evaluate"})
            => /\ call'.op = "evaluate_valid" => call'.loaded = None
               /\ self'.model = self.model + optimizer_steps' - optimizer_steps
               /\ self'.optimizer
                     = self.optimizer + optimizer_steps' - optimizer_steps]_vars
    /\ [][(pc \in {"train", "epoch_end"}
           /\ Len(self'.result_list) > Len(self.result_list))
            => /\ self'.model = self.model + optimizer_steps' - optimizer_steps
               /\ self'.optimizer
                     = self.optimizer + optimizer_steps' - optimizer_steps]_vars

C38_Witness ==
    /\ call.op = "evaluate_valid"
    /\ call.load_best_model
    /\ call.model_file = Some(BestPointer)
    /\ Exists(Disk, BestPointer)
    /\ TorchLoad(Disk, BestPointer).state_dict # self.model
    /\ call.ret = Some("preview")
    /\ Len(self.result_list) >= 2

---------------------------------------------------------------------------
(* The resolved cadence during fit, under Spec.                            *)

(* C36: the resolved eval interval is at least 1 for every configured pair *)
(* of eval_epoch and eval_step, so a _valid call at the resolved position  *)
(* is always counted: validation is never turned off.                      *)
C36_IntervalAtLeastOne ==
    /\ [](self.eval_interval >= 1)
    /\ [][(/\ valid_data
           /\ \/ pc = "train" /\ self.eval_mode = "step"
              \/ pc = "epoch_end" /\ self.eval_mode = "epoch")
            => self'._eval_count = self._eval_count + 1]_vars

C36_Witness ==
    /\ config.eval_epoch = Some(-1)
    /\ config.eval_step = Some(0)
    /\ self.eval_interval = 1
    /\ self._eval_count = 2
    /\ Len(self.result_list) = 2

---------------------------------------------------------------------------
(* The best pointer in a resumed session, under SpecApi.                   *)

(* C37: in a session resumed from a checkpoint, in epoch cadence, a        *)
(* validation pass replaces an existing best pointer only when its score   *)
(* is strictly greater than the restored best_valid_score; a pass that     *)
(* does not exceed the best score leaves the pointer and best_epoch as     *)
(* they were.                                                              *)
C37_ResumedBestPointer ==
    [][(/\ call.op = "resume_checkpoint"
        /\ call.checkpoint # None
        /\ self.eval_mode = "epoch"
        /\ BestPointer \in DOMAIN links
        /\ Len(self'.result_list) > Len(self.result_list))
         => LET score == Last(self'.result_list).score
            IN  /\ score <= self.best_valid_score
                     => (links' = links /\ self'.best_epoch = self.best_epoch)
                /\ (links' # links \/ self'.best_epoch # self.best_epoch)
                     => /\ score > call.checkpoint[1].best_valid_score
                        /\ links'[BestPointer].tag = Some(self'.epoch_idx)]_vars

(* A resumed session in which a pass did not exceed the restored best and  *)
(* left the earlier session's pointer where it was.                        *)
C37_Witness ==
    /\ call.op = "resume_checkpoint"
    /\ call.checkpoint # None
    /\ call.restart
    /\ self.eval_mode = "epoch"
    /\ BestPointer \in DOMAIN links
    /\ Len(self.result_list) >= 1
    /\ Last(self.result_list).score <= call.checkpoint[1].best_valid_score
    /\ self.best_epoch = -1
    /\ links[BestPointer].tag # Some(self.epoch_idx)

---------------------------------------------------------------------------
(* The eval counter during fit, under Spec.                                *)

(* C39: while fit runs with validation data and no error, the length of    *)
(* result_list is floor(_eval_count / eval_interval), with _eval_count the *)
(* number of _valid calls at the resolved position: in step cadence the    *)
(* optimizer steps of this fit, counted on across epochs, in epoch cadence *)
(* the epochs ended; the counter never goes down.                          *)
C39_ResultsPerCount ==
    /\ []((valid_data /\ error = "")
            => /\ Len(self.result_list)
                     = self._eval_count \div self.eval_interval
               /\ self.eval_mode = "step"
                     => self._eval_count = optimizer_steps
               /\ self.eval_mode = "epoch"
                     => self._eval_count = Len(self.train_loss_list))
    /\ [][self'._eval_count >= self._eval_count]_vars

C39_Witness ==
    /\ valid_data
    /\ error = ""
    /\ self.eval_mode = "step"
    /\ self.eval_interval = 2
    /\ train_data = 1
    /\ self.epoch_idx = 2
    /\ self._eval_count = 3
    /\ Len(self.result_list) = 1

=============================================================================
